---------------------------- MODULE Spec2Model ----------------------------
(***************************************************************************)
(* Hextris: a falling-block game on a hexagonal grid.                      *)
(*                                                                         *)
(* The module models the game engine (field, pieces, collision, movement,  *)
(* line detection, clearing, gravity, special cells, scoring) as operators *)
(* and the orchestration layer (game store, game loop, game controller)    *)
(* as a state machine.                                                     *)
(*                                                                         *)
(* Conventions                                                             *)
(*  - an AxialCoord {q, r} is a record [q |-> , r |-> ]; the string key    *)
(*    "q,r" of the Maps and Sets is the tuple <<q, r>> (axialToKey and     *)
(*    keyToAxial convert between the two);                                 *)
(*  - a GridState (Map<string, CellState>) is a function whose DOMAIN is   *)
(*    the set of keys present in the Map; grid.get(key) of an absent key   *)
(*    is `undefined`, which every reader treats as "not filled";           *)
(*  - a CellState is a record with all optional fields present: an absent  *)
(*    `special` is "none", an absent `frozenCleared` is FALSE, an absent   *)
(*    `clearing` is 0 (otherwise clearing.lineCount);                      *)
(*  - `null` is the record NULL.                                           *)
(***************************************************************************)
EXTENDS Integers, Sequences, FiniteSets, TLC

(***************************************************************************)
(* Bounds of the model.  The program's field is 11 columns x 20 rows       *)
(* (gameModes.ts FIELD_COLUMNS / FIELD_ROWS); the model plays on a field   *)
(* generated by the same formula with fewer columns and rows.              *)
(***************************************************************************)
FIELD_COLUMNS == 5

FIELD_ROWS == 4

\* Largest piece.rotation the model lets a piece reach (the program's
\* rotation counter is unbounded; cells are taken modulo rotationStates).
MaxRotation == 1

\* Number of pieces the model lets lock, over all games of a behaviour.
MaxLocks == 2

\* Number of times the random rolls of the model come out "special"
\* (special pieces and special-cell promotions together).
MaxSpecialRolls == 1

\* Time passes in steps of TimeStep milliseconds.
TimeStep == 250

(***************************************************************************)
(* Generic helpers.                                                        *)
(***************************************************************************)
Min(a, b) == IF a < b THEN a ELSE b

Max(a, b) == IF a > b THEN a ELSE b

\* JavaScript's remainder operator: the result has the sign of the dividend.
JsRem(a, b) == IF a >= 0 THEN a % b ELSE 0 - ((0 - a) % b)

Range(s) == {s[i] : i \in DOMAIN s}

RECURSIVE SeqOfSet(_)
\* Some enumeration of a finite set (used where the order is irrelevant).
SeqOfSet(S) ==
  IF S = {} THEN <<>>
  ELSE LET x == CHOOSE y \in S : TRUE IN <<x>> \o SeqOfSet(S \ {x})

NULL == [type |-> "null"]

(***************************************************************************)
(* hexMath.ts                                                              *)
(***************************************************************************)
axialToCube(axial) == [x |-> axial.q, y |-> axial.r, z |-> (0 - axial.q) - axial.r]

cubeToAxial(cube) == [q |-> cube.x, r |-> cube.y]

\* Order: Top, TopRight, BottomRight, Bottom, BottomLeft, TopLeft
AXIAL_DIRECTIONS ==
  << [q |-> 0, r |-> -1], [q |-> 1, r |-> -1], [q |-> 1, r |-> 0],
     [q |-> 0, r |-> 1], [q |-> -1, r |-> 1], [q |-> -1, r |-> 0] >>

axialToKey(axial) == <<axial.q, axial.r>>

keyToAxial(key) == [q |-> key[1], r |-> key[2]]

\* Order: right, left, bottom, top, top-right, bottom-left
getHexNeighbors(coord) ==
  << [q |-> coord.q + 1, r |-> coord.r], [q |-> coord.q - 1, r |-> coord.r],
     [q |-> coord.q, r |-> coord.r + 1], [q |-> coord.q, r |-> coord.r - 1],
     [q |-> coord.q + 1, r |-> coord.r - 1], [q |-> coord.q - 1, r |-> coord.r + 1] >>

(***************************************************************************)
(* gameModes.ts: the field and the spawn position.                         *)
(***************************************************************************)
\* The keys of the field in insertion (iteration) order: column by column,
\* each column from its top row to its bottom row.
FIELD_ORDER ==
  [i \in 1..(FIELD_COLUMNS * FIELD_ROWS) |->
     LET col == (i - 1) \div FIELD_ROWS
         row == (i - 1) % FIELD_ROWS
     IN <<col, row - (col \div 2)>>]

generateFieldShape == Range(FIELD_ORDER)

FIELD_SHAPE == generateFieldShape

\* Top centre: the middle column, row 0 (q = col, r = row - floor(col/2));
\* {q: 5, r: -2} on the program's 11 columns.
SPAWN_POSITION ==
  [q |-> FIELD_COLUMNS \div 2, r |-> 0 - ((FIELD_COLUMNS \div 2) \div 2)]

(***************************************************************************)
(* types.ts: cell states.                                                  *)
(***************************************************************************)
EmptyCell ==
  [filled |-> FALSE, color |-> "", special |-> "none", frozenCleared |-> FALSE,
   clearing |-> 0]

FilledCell(color, special) ==
  [filled |-> TRUE, color |-> color, special |-> special, frozenCleared |-> FALSE,
   clearing |-> 0]

\* cellState && cellState.filled, cellState?.filled
IsFilled(grid, key) == key \in DOMAIN grid /\ grid[key].filled

\* new Map(grid) followed by set(key, cell)
MapSet(grid, key, cell) ==
  [k \in (DOMAIN grid) \cup {key} |-> IF k = key THEN cell ELSE grid[k]]

\* new Map(grid) followed by delete(key) for every key of keys
MapDelete(grid, keys) == [k \in (DOMAIN grid) \ keys |-> grid[k]]

(***************************************************************************)
(* pieces.ts: the piece catalogue.                                         *)
(***************************************************************************)
NEIGHBORS ==
  [top |-> [q |-> 0, r |-> -1], topRight |-> [q |-> 1, r |-> -1],
   bottomRight |-> [q |-> 1, r |-> 0], bottom |-> [q |-> 0, r |-> 1],
   bottomLeft |-> [q |-> -1, r |-> 1], topLeft |-> [q |-> -1, r |-> 0]]

I_PIECE == << NEIGHBORS.top, NEIGHBORS.bottom, [q |-> 0, r |-> 2] >>

S_PIECE == << NEIGHBORS.topLeft, NEIGHBORS.topRight, [q |-> 2, r |-> -1] >>

Z_PIECE == << NEIGHBORS.topRight, NEIGHBORS.topLeft, [q |-> -2, r |-> 1] >>

L_PIECE == << NEIGHBORS.top, [q |-> 0, r |-> -2], NEIGHBORS.bottomRight >>

J_PIECE == << NEIGHBORS.top, [q |-> 0, r |-> -2], NEIGHBORS.bottomLeft >>

T_PIECE == << NEIGHBORS.top, NEIGHBORS.bottom, NEIGHBORS.topRight >>

P_PIECE == << NEIGHBORS.top, NEIGHBORS.bottom, NEIGHBORS.topLeft >>

U_PIECE == << NEIGHBORS.top, NEIGHBORS.topRight, NEIGHBORS.bottomRight, NEIGHBORS.bottom >>

O_PIECE == << NEIGHBORS.topRight, NEIGHBORS.bottomRight, NEIGHBORS.bottom >>

Y_PIECE == << NEIGHBORS.top, NEIGHBORS.bottomRight, NEIGHBORS.bottomLeft >>

\* The piece types in the order of getRandomPieceType's `types` array.
PieceTypes ==
  << "I_PIECE", "S_PIECE", "Z_PIECE", "L_PIECE", "J_PIECE", "T_PIECE", "P_PIECE",
     "U_PIECE", "O_PIECE", "Y_PIECE" >>

PIECE_METADATA ==
  [I_PIECE |-> [shape |-> I_PIECE, color |-> "#06b6d4", hasCenter |-> TRUE, rotationStates |-> 3],
   S_PIECE |-> [shape |-> S_PIECE, color |-> "#f97316", hasCenter |-> TRUE, rotationStates |-> 3],
   Z_PIECE |-> [shape |-> Z_PIECE, color |-> "#84cc16", hasCenter |-> TRUE, rotationStates |-> 3],
   L_PIECE |-> [shape |-> L_PIECE, color |-> "#3b82f6", hasCenter |-> TRUE, rotationStates |-> 6],
   J_PIECE |-> [shape |-> J_PIECE, color |-> "#f59e0b", hasCenter |-> TRUE, rotationStates |-> 6],
   T_PIECE |-> [shape |-> T_PIECE, color |-> "#8b5cf6", hasCenter |-> TRUE, rotationStates |-> 6],
   P_PIECE |-> [shape |-> P_PIECE, color |-> "#ec4899", hasCenter |-> TRUE, rotationStates |-> 6],
   U_PIECE |-> [shape |-> U_PIECE, color |-> "#22c55e", hasCenter |-> FALSE, rotationStates |-> 6],
   O_PIECE |-> [shape |-> O_PIECE, color |-> "#ef4444", hasCenter |-> TRUE, rotationStates |-> 3],
   Y_PIECE |-> [shape |-> Y_PIECE, color |-> "#eab308", hasCenter |-> TRUE, rotationStates |-> 6]]

\* Spawn weights (3.0, 2.0, 1.0 in the program).
PIECE_SPAWN_RATES ==
  [I_PIECE |-> 3, S_PIECE |-> 3, Z_PIECE |-> 3, L_PIECE |-> 3, J_PIECE |-> 3,
   T_PIECE |-> 3, P_PIECE |-> 3, U_PIECE |-> 2, O_PIECE |-> 3, Y_PIECE |-> 1]

RECURSIVE rotateCoordinateCube(_, _)
\* The loop of rotateCoordinate: `steps` times (x, y, z) -> (-z, -x, -y).
rotateCoordinateCube(cube, steps) ==
  IF steps <= 0 THEN cube
  ELSE rotateCoordinateCube([x |-> 0 - cube.z, y |-> 0 - cube.x, z |-> 0 - cube.y],
                            steps - 1)

rotateCoordinate(coord, steps) ==
  cubeToAxial(rotateCoordinateCube(axialToCube(coord), steps))

rotatePieceShape(shape, rotationSteps) ==
  LET normalizedSteps == JsRem(JsRem(rotationSteps, 6) + 6, 6)
  IN IF normalizedSteps = 0 THEN shape
     ELSE [i \in DOMAIN shape |-> rotateCoordinate(shape[i], normalizedSteps)]

\* A Piece is [type, position, rotation, special]; piece.shape and
\* piece.color are the metadata's shape and colour of piece.type.
createPiece(type, position, rotation, special) ==
  [type |-> type, position |-> position, rotation |-> rotation, special |-> special]

\* Fault: getPieceCells takes the remainder of the rotation as it is,
\* negative for a negative rotation.
getPieceCellsSignedRemainder(piece) ==
  LET metadata == PIECE_METADATA[piece.type]
      center == IF metadata.hasCenter THEN <<piece.position>> ELSE <<>>
      normalizedRotation == JsRem(piece.rotation, metadata.rotationStates)
      rotatedShape == rotatePieceShape(metadata.shape, normalizedRotation)
  IN center \o [i \in DOMAIN rotatedShape |->
                  [q |-> piece.position.q + rotatedShape[i].q,
                   r |-> piece.position.r + rotatedShape[i].r]]

getPieceCells(piece) ==
  LET metadata == PIECE_METADATA[piece.type]
      center == IF metadata.hasCenter THEN <<piece.position>> ELSE <<>>
      normalizedRotation ==
        JsRem(JsRem(piece.rotation, metadata.rotationStates) + metadata.rotationStates,
              metadata.rotationStates)
      rotatedShape == rotatePieceShape(metadata.shape, normalizedRotation)
  IN center \o [i \in DOMAIN rotatedShape |->
                  [q |-> piece.position.q + rotatedShape[i].q,
                   r |-> piece.position.r + rotatedShape[i].r]]

rotatePiece(piece) == [piece EXCEPT !.rotation = piece.rotation + 1]

getMinROffset(type) ==
  LET metadata == PIECE_METADATA[type]
      rs == {metadata.shape[i].r : i \in DOMAIN metadata.shape}
              \cup (IF metadata.hasCenter THEN {0} ELSE {})
  IN CHOOSE m \in rs : \A x \in rs : m <= x

RECURSIVE cumulativeWeight(_, _)
\* cumulative after the i-th of the weighted types.
cumulativeWeight(weightedTypes, i) ==
  IF i = 0 THEN 0
  ELSE cumulativeWeight(weightedTypes, i - 1) + PIECE_SPAWN_RATES[weightedTypes[i]]

\* random is the value of Math.random(), in thousandths.
getRandomPieceType(excludeTypes, random) ==
  LET excludeSet == Range(excludeTypes)
      weightedTypes == SelectSeq(PieceTypes, LAMBDA t : t \notin excludeSet
                                                        /\ PIECE_SPAWN_RATES[t] > 0)
      totalWeight == cumulativeWeight(weightedTypes, Len(weightedTypes))
      availableTypes == SelectSeq(PieceTypes, LAMBDA t : t \notin excludeSet)
      hits == {i \in DOMAIN weightedTypes :
                 random * totalWeight < cumulativeWeight(weightedTypes, i) * 1000}
  IN IF totalWeight = 0
     THEN availableTypes[((random * Len(availableTypes)) \div 1000) + 1]
     ELSE IF hits = {} THEN weightedTypes[Len(weightedTypes)]
     ELSE weightedTypes[CHOOSE i \in hits : \A j \in hits : i <= j]

(***************************************************************************)
(* collision.ts                                                            *)
(***************************************************************************)
getPieceCoordinates(piece) == getPieceCells(piece)

\* Fault: isValidPiecePosition looks for a cell outside the field among all
\* cells before it looks for a filled one.
isValidFromBoundsFirst(coords, i, grid, fieldShape) ==
  IF \E j \in i..Len(coords) : axialToKey(coords[j]) \notin fieldShape
  THEN [valid |-> FALSE, reason |-> "out-of-bounds"]
  ELSE IF \E j \in i..Len(coords) : IsFilled(grid, axialToKey(coords[j]))
       THEN [valid |-> FALSE, reason |-> "overlap"]
       ELSE [valid |-> TRUE, reason |-> "none"]

RECURSIVE isValidFrom(_, _, _, _)
\* The loop of isValidPiecePosition from the i-th cell on: the first cell
\* that fails decides the reason.
isValidFrom(coords, i, grid, fieldShape) ==
  IF i > Len(coords) THEN [valid |-> TRUE, reason |-> "none"]
  ELSE LET key == axialToKey(coords[i])
       IN IF key \notin fieldShape THEN [valid |-> FALSE, reason |-> "out-of-bounds"]
          ELSE IF IsFilled(grid, key) THEN [valid |-> FALSE, reason |-> "overlap"]
          ELSE isValidFrom(coords, i + 1, grid, fieldShape)

isValidPiecePosition(piece, grid, fieldShape) ==
  isValidFrom(getPieceCoordinates(piece), 1, grid, fieldShape)

(***************************************************************************)
(* movement.ts                                                             *)
(***************************************************************************)
moveDown(piece, grid, fieldShape) ==
  LET newPiece == [piece EXCEPT !.position = [q |-> piece.position.q, r |-> piece.position.r + 1]]
  IN IF isValidPiecePosition(newPiece, grid, fieldShape).valid THEN newPiece ELSE NULL

\* Fault: moveLeft adjusts r by the parity of the column it leaves.
moveLeftBySourceParity(piece, grid, fieldShape) ==
  LET newQ == piece.position.q - 1
      rAdjust == IF JsRem(piece.position.q, 2) = 1 THEN 1 ELSE 0
      newPiece == [piece EXCEPT !.position = [q |-> newQ, r |-> piece.position.r + rAdjust]]
  IN IF isValidPiecePosition(newPiece, grid, fieldShape).valid THEN newPiece ELSE NULL

moveLeft(piece, grid, fieldShape) ==
  LET newQ == piece.position.q - 1
      rAdjust == IF JsRem(newQ, 2) = 1 THEN 1 ELSE 0
      newPiece == [piece EXCEPT !.position = [q |-> newQ, r |-> piece.position.r + rAdjust]]
  IN IF isValidPiecePosition(newPiece, grid, fieldShape).valid THEN newPiece ELSE NULL

moveRight(piece, grid, fieldShape) ==
  LET newQ == piece.position.q + 1
      rAdjust == IF JsRem(newQ, 2) = 0 THEN -1 ELSE 0
      newPiece == [piece EXCEPT !.position = [q |-> newQ, r |-> piece.position.r + rAdjust]]
  IN IF isValidPiecePosition(newPiece, grid, fieldShape).valid THEN newPiece ELSE NULL

\* moveDownLeft and moveDownRight are imported by the game controller but
\* their code is not part of the sources at hand.  They are modelled from
\* the design description: one step sideways and down, to the bottom-left
\* (bottom-right) hex neighbour, accepted only if the position is valid.
moveDownLeft(piece, grid, fieldShape) ==
  LET newPiece == [piece EXCEPT !.position =
                     [q |-> piece.position.q + NEIGHBORS.bottomLeft.q,
                      r |-> piece.position.r + NEIGHBORS.bottomLeft.r]]
  IN IF isValidPiecePosition(newPiece, grid, fieldShape).valid THEN newPiece ELSE NULL

moveDownRight(piece, grid, fieldShape) ==
  LET newPiece == [piece EXCEPT !.position =
                     [q |-> piece.position.q + NEIGHBORS.bottomRight.q,
                      r |-> piece.position.r + NEIGHBORS.bottomRight.r]]
  IN IF isValidPiecePosition(newPiece, grid, fieldShape).valid THEN newPiece ELSE NULL

\* Fault: calculateDropPosition stops after the first step down.
calculateDropFromOneStep(testPiece, grid, fieldShape) ==
  LET moved == moveDown(testPiece, grid, fieldShape)
  IN IF moved = NULL THEN testPiece.position ELSE moved.position

RECURSIVE calculateDropFrom(_, _, _)
\* The loop of calculateDropPosition: keep moving down until rejected.
calculateDropFrom(testPiece, grid, fieldShape) ==
  LET moved == moveDown(testPiece, grid, fieldShape)
  IN IF moved = NULL THEN testPiece.position
     ELSE calculateDropFrom(moved, grid, fieldShape)

calculateDropPosition(piece, grid, fieldShape) == calculateDropFrom(piece, grid, fieldShape)

hardDrop(piece, grid, fieldShape) ==
  [piece EXCEPT !.position = calculateDropPosition(piece, grid, fieldShape)]

\* Fault: rotateWithWallKick tries the unit offsets in the reverse order.
wallKickCandidatesReversed(piece) ==
  LET rotated == rotatePiece(piece)
  IN <<rotated>>
     \o [i \in DOMAIN AXIAL_DIRECTIONS |->
           [rotated EXCEPT !.position =
              [q |-> rotated.position.q + AXIAL_DIRECTIONS[Len(AXIAL_DIRECTIONS) + 1 - i].q,
               r |-> rotated.position.r + AXIAL_DIRECTIONS[Len(AXIAL_DIRECTIONS) + 1 - i].r]]]
     \o << [rotated EXCEPT !.position = [q |-> rotated.position.q,
                                         r |-> rotated.position.r + 1]] >>

\* The candidates of rotateWithWallKick in the order they are tried.
wallKickCandidates(piece) ==
  LET rotated == rotatePiece(piece)
  IN <<rotated>>
     \o [i \in DOMAIN AXIAL_DIRECTIONS |->
           [rotated EXCEPT !.position = [q |-> rotated.position.q + AXIAL_DIRECTIONS[i].q,
                                         r |-> rotated.position.r + AXIAL_DIRECTIONS[i].r]]]
     \o << [rotated EXCEPT !.position = [q |-> rotated.position.q,
                                         r |-> rotated.position.r + 1]] >>

rotateWithWallKick(piece, grid, fieldShape) ==
  LET cands == wallKickCandidates(piece)
      ok == {i \in DOMAIN cands : isValidPiecePosition(cands[i], grid, fieldShape).valid}
  IN IF ok = {} THEN NULL
     ELSE cands[CHOOSE i \in ok : \A j \in ok : i <= j]

(***************************************************************************)
(* specialCells.ts                                                         *)
(***************************************************************************)
\* Chances are in thousandths (0.05 is 50).
SPECIAL_CELL_SPAWN ==
  [BOMB_BASE_CHANCE |-> 50, BOMB_INCREASE_PER_LEVEL |-> 5, BOMB_MAX_CHANCE |-> 150,
   MULTIPLIER_BASE_CHANCE |-> 30, MULTIPLIER_INCREASE_PER_LEVEL |-> 4,
   MULTIPLIER_MAX_CHANCE |-> 120,
   FROZEN_FIXED_CHANCE |-> 25,
   MULTIPLIER_SCORE_BONUS |-> 2,
   BOMB_MAX_COUNT |-> 3, MULTIPLIER_MAX_COUNT |-> 3, FROZEN_MAX_COUNT |-> 1,
   BOMB_PIECE_BASE_CHANCE |-> 20, BOMB_PIECE_INCREASE_PER_LEVEL |-> 3,
   BOMB_PIECE_MAX_CHANCE |-> 80,
   MULTIPLIER_PIECE_BASE_CHANCE |-> 15, MULTIPLIER_PIECE_INCREASE_PER_LEVEL |-> 2,
   MULTIPLIER_PIECE_MAX_CHANCE |-> 60]

getSpawnChance(type, level) ==
  CASE type = "bomb" ->
         Min(SPECIAL_CELL_SPAWN.BOMB_BASE_CHANCE
               + (level - 1) * SPECIAL_CELL_SPAWN.BOMB_INCREASE_PER_LEVEL,
             SPECIAL_CELL_SPAWN.BOMB_MAX_CHANCE)
    [] type = "multiplier" ->
         Min(SPECIAL_CELL_SPAWN.MULTIPLIER_BASE_CHANCE
               + (level - 1) * SPECIAL_CELL_SPAWN.MULTIPLIER_INCREASE_PER_LEVEL,
             SPECIAL_CELL_SPAWN.MULTIPLIER_MAX_CHANCE)
    [] type = "frozen" -> SPECIAL_CELL_SPAWN.FROZEN_FIXED_CHANCE

getSpecialPieceSpawnChance(type, level) ==
  CASE type = "bomb" ->
         Min(SPECIAL_CELL_SPAWN.BOMB_PIECE_BASE_CHANCE
               + (level - 1) * SPECIAL_CELL_SPAWN.BOMB_PIECE_INCREASE_PER_LEVEL,
             SPECIAL_CELL_SPAWN.BOMB_PIECE_MAX_CHANCE)
    [] type = "multiplier" ->
         Min(SPECIAL_CELL_SPAWN.MULTIPLIER_PIECE_BASE_CHANCE
               + (level - 1) * SPECIAL_CELL_SPAWN.MULTIPLIER_PIECE_INCREASE_PER_LEVEL,
             SPECIAL_CELL_SPAWN.MULTIPLIER_PIECE_MAX_CHANCE)

\* roll and typeRoll are the values of the two calls of Math.random(), in
\* thousandths; "none" stands for undefined.
rollSpecialPieceType(level, roll, typeRoll) ==
  LET bombChance == getSpecialPieceSpawnChance("bomb", level)
      multiplierChance == getSpecialPieceSpawnChance("multiplier", level)
      totalChance == bombChance + multiplierChance
  IN IF roll >= totalChance THEN "none"
     ELSE IF typeRoll * totalChance < bombChance * 1000 THEN "bomb"
     ELSE "multiplier"

countSpecialCells(grid, fieldShape) ==
  [t \in {"bomb", "multiplier", "frozen"} |->
     Cardinality({key \in fieldShape : IsFilled(grid, key) /\ grid[key].special = t})]

getMaxCount(type) ==
  CASE type = "bomb" -> SPECIAL_CELL_SPAWN.BOMB_MAX_COUNT
    [] type = "multiplier" -> SPECIAL_CELL_SPAWN.MULTIPLIER_MAX_COUNT
    [] type = "frozen" -> SPECIAL_CELL_SPAWN.FROZEN_MAX_COUNT

\* fieldShape is iterated in the order in which generateFieldShape added the keys.
getEligibleCells(grid, fieldShape) ==
  SelectSeq(FIELD_ORDER, LAMBDA key : key \in fieldShape /\ IsFilled(grid, key)
                                      /\ grid[key].special = "none")

\* Fault: maybeSpawnSpecialCell does not look at the counts of the types.
maybeSpawnSpecialCellUncapped(grid, fieldShape, level, spawnRoll, typeRoll, indexRoll) ==
  LET eligibleCells == getEligibleCells(grid, fieldShape)
      bombChance == getSpawnChance("bomb", level)
      multiplierChance == getSpawnChance("multiplier", level)
      frozenChance == getSpawnChance("frozen", level)
      totalChance == bombChance + multiplierChance + frozenChance
      selectedType == IF typeRoll * totalChance < bombChance * 1000 THEN "bomb"
                      ELSE IF typeRoll * totalChance < (bombChance + multiplierChance) * 1000
                      THEN "multiplier"
                      ELSE "frozen"
      selectedKey == eligibleCells[((indexRoll * Len(eligibleCells)) \div 1000) + 1]
  IN IF Len(eligibleCells) = 0 THEN grid
     ELSE IF spawnRoll >= totalChance THEN grid
     ELSE MapSet(grid, selectedKey, [grid[selectedKey] EXCEPT !.special = selectedType])

\* spawnRoll, typeRoll and indexRoll are the values of the three calls of
\* Math.random(), in thousandths.
maybeSpawnSpecialCell(grid, fieldShape, level, spawnRoll, typeRoll, indexRoll) ==
  LET eligibleCells == getEligibleCells(grid, fieldShape)
      currentCounts == countSpecialCells(grid, fieldShape)
      bombChance == IF currentCounts["bomb"] >= getMaxCount("bomb") THEN 0
                    ELSE getSpawnChance("bomb", level)
      multiplierChance == IF currentCounts["multiplier"] >= getMaxCount("multiplier") THEN 0
                          ELSE getSpawnChance("multiplier", level)
      frozenChance == IF currentCounts["frozen"] >= getMaxCount("frozen") THEN 0
                      ELSE getSpawnChance("frozen", level)
      totalChance == bombChance + multiplierChance + frozenChance
      selectedType == IF typeRoll * totalChance < bombChance * 1000 THEN "bomb"
                      ELSE IF typeRoll * totalChance < (bombChance + multiplierChance) * 1000
                      THEN "multiplier"
                      ELSE "frozen"
      selectedKey == eligibleCells[((indexRoll * Len(eligibleCells)) \div 1000) + 1]
  IN IF Len(eligibleCells) = 0 THEN grid
     ELSE IF totalChance = 0 THEN grid
     ELSE IF spawnRoll >= totalChance THEN grid
     ELSE MapSet(grid, selectedKey, [grid[selectedKey] EXCEPT !.special = selectedType])

\* Fault: getFilledNeighbors returns the neighbours in the field whether
\* they are filled or not.
getFilledNeighborsOrEmpty(coord, grid, fieldShape) ==
  SelectSeq(getHexNeighbors(coord), LAMBDA neighbor : axialToKey(neighbor) \in fieldShape)

getFilledNeighbors(coord, grid, fieldShape) ==
  SelectSeq(getHexNeighbors(coord),
            LAMBDA neighbor : axialToKey(neighbor) \in fieldShape
                              /\ IsFilled(grid, axialToKey(neighbor)))

\* The keys applyBombExplosions marks for destruction.
bombCellsToDestroy(grid, bombCells, fieldShape) ==
  UNION {{axialToKey(n) : n \in Range(getFilledNeighbors(bombCells[i], grid, fieldShape))} :
           i \in DOMAIN bombCells}

applyBombExplosions(grid, bombCells, fieldShape) ==
  IF Len(bombCells) = 0 THEN grid
  ELSE MapDelete(grid, bombCellsToDestroy(grid, bombCells, fieldShape))

RECURSIVE processFrozenFrom(_, _, _, _)
\* The loop of processFrozenCells from the i-th coordinate on; cellsToCheck
\* may name a cell more than once.
processFrozenFrom(newGrid, cellsToCheck, i, cellsToRemove) ==
  IF i > Len(cellsToCheck) THEN [cellsToRemove |-> cellsToRemove, updatedGrid |-> newGrid]
  ELSE LET key == axialToKey(cellsToCheck[i])
       IN IF ~IsFilled(newGrid, key)
          THEN processFrozenFrom(newGrid, cellsToCheck, i + 1, cellsToRemove)
          ELSE IF newGrid[key].special = "frozen" /\ ~newGrid[key].frozenCleared
          THEN processFrozenFrom(
                 MapSet(newGrid, key,
                        [filled |-> TRUE, color |-> newGrid[key].color, special |-> "none",
                         frozenCleared |-> TRUE, clearing |-> 0]),
                 cellsToCheck, i + 1, cellsToRemove)
          ELSE processFrozenFrom(newGrid, cellsToCheck, i + 1,
                                 Append(cellsToRemove, cellsToCheck[i]))

processFrozenCells(grid, cellsToCheck) == processFrozenFrom(grid, cellsToCheck, 1, <<>>)

hasMultiplierCell(grid, cells) ==
  \E i \in DOMAIN cells :
     IsFilled(grid, axialToKey(cells[i])) /\ grid[axialToKey(cells[i])].special = "multiplier"

getBombCells(grid, cells) ==
  SelectSeq(cells, LAMBDA coord : IsFilled(grid, axialToKey(coord))
                                  /\ grid[axialToKey(coord)].special = "bomb")


(***************************************************************************)
(* lineDetection.ts                                                        *)
(***************************************************************************)
getBombExplosionCells(grid, bombCells, fieldShape) ==
  IF Len(bombCells) = 0 THEN <<>>
  ELSE LET cellsToDestroy == bombCellsToDestroy(grid, bombCells, fieldShape)
       IN [i \in DOMAIN SeqOfSet(cellsToDestroy) |-> keyToAxial(SeqOfSet(cellsToDestroy)[i])]

LineDirections == << "diagonalRight", "diagonalLeft" >>

getLineConstant(coord, direction) ==
  CASE direction = "diagonalRight" -> coord.r
    [] direction = "diagonalLeft" -> coord.q + coord.r

\* lineGroups of detectLines: the field's cells grouped by their line
\* constant, the groups in the order in which their constants first occur
\* and the cells of a group in the field's order.
lineGroups(direction) ==
  LET const(i) == getLineConstant(keyToAxial(FIELD_ORDER[i]), direction)
      firsts == SelectSeq([i \in DOMAIN FIELD_ORDER |-> i],
                          LAMBDA i : \A j \in 1..(i - 1) : const(j) # const(i))
  IN [g \in DOMAIN firsts |->
        LET idx == SelectSeq([i \in DOMAIN FIELD_ORDER |-> i],
                             LAMBDA i : const(i) = const(firsts[g]))
        IN [n \in DOMAIN idx |-> keyToAxial(FIELD_ORDER[idx[n]])]]

LINE_GROUPS == [d \in Range(LineDirections) |-> lineGroups(d)]

\* The groups of one direction that are complete, as lines.
completeLines(grid, direction, groups) ==
  [i \in DOMAIN groups |-> [direction |-> direction, cells |-> groups[i]]]

\* Fault: detectLines looks at the second direction only when the first has
\* no complete line.
detectLinesOneFamily(grid, fieldShape) ==
  LET complete(direction) ==
        SelectSeq(LINE_GROUPS[direction],
                  LAMBDA cells : Len(cells) > 0
                                 /\ \A i \in DOMAIN cells : IsFilled(grid, axialToKey(cells[i])))
  IN IF Len(complete(LineDirections[1])) > 0
     THEN completeLines(grid, LineDirections[1], complete(LineDirections[1]))
     ELSE completeLines(grid, LineDirections[2], complete(LineDirections[2]))

\* fieldShape is FIELD_SHAPE in every call of the program.
detectLines(grid, fieldShape) ==
  LET complete(direction) ==
        SelectSeq(LINE_GROUPS[direction],
                  LAMBDA cells : Len(cells) > 0
                                 /\ \A i \in DOMAIN cells : IsFilled(grid, axialToKey(cells[i])))
  IN completeLines(grid, LineDirections[1], complete(LineDirections[1]))
     \o completeLines(grid, LineDirections[2], complete(LineDirections[2]))

RECURSIVE flatCells(_)
\* allCellsToCheck.push(...line.cells) for every line, in order.
flatCells(lines) ==
  IF lines = <<>> THEN <<>> ELSE Head(lines).cells \o flatCells(Tail(lines))

\* clearLines from the removal of the cells on: the cleared grid, the bombs
\* among the removed cells and their explosions.
clearLinesRemoved(gridAfterLineClear, bombCells, hasMultiplier, fieldShape) ==
  [gridAfterLineClear |-> gridAfterLineClear,
   bombExplosionCells |-> getBombExplosionCells(gridAfterLineClear, bombCells, fieldShape),
   gridAfterBombs |-> applyBombExplosions(gridAfterLineClear, bombCells, fieldShape),
   hasMultiplier |-> hasMultiplier]

\* clearLines from the result of processFrozenCells on.
clearLinesFrozen(frozen, hasMultiplier, fieldShape) ==
  clearLinesRemoved(
    MapDelete(frozen.updatedGrid, {axialToKey(c) : c \in Range(frozen.cellsToRemove)}),
    getBombCells(frozen.updatedGrid, frozen.cellsToRemove),
    hasMultiplier, fieldShape)

\* clearLines from allCellsToCheck on.
clearLinesChecked(grid, allCellsToCheck, fieldShape) ==
  clearLinesFrozen(processFrozenCells(grid, allCellsToCheck),
                   hasMultiplierCell(grid, allCellsToCheck), fieldShape)

clearLines(grid, lines, fieldShape) == clearLinesChecked(grid, flatCells(lines), fieldShape)

RECURSIVE isGrounded(_, _, _)
\* A filled cell is grounded if nothing of the field is below it or the cell
\* directly below it is grounded (the fixpoint of the two passes).
isGrounded(key, filledKeys, fieldShape) ==
  /\ key \in filledKeys
  /\ LET belowKey == axialToKey([q |-> keyToAxial(key).q, r |-> keyToAxial(key).r + 1])
     IN belowKey \notin fieldShape \/ isGrounded(belowKey, filledKeys, fieldShape)

classifyGroundedAndFloating(filledKeys, fieldShape) ==
  LET grounded == {key \in filledKeys : isGrounded(key, filledKeys, fieldShape)}
  IN [grounded |-> grounded, floating |-> filledKeys \ grounded]

RECURSIVE sortByRDescending(_)
\* [...floatingCells].sort((a, b) => b.coord.r - a.coord.r); cells of equal r
\* are in different columns and do not influence one another.
sortByRDescending(keys) ==
  IF keys = {} THEN <<>>
  ELSE LET first == CHOOSE k \in keys : \A o \in keys : k[2] >= o[2]
       IN <<first>> \o sortByRDescending(keys \ {first})

RECURSIVE fallFrom(_, _, _, _, _, _, _)
\* The loop over sortedFloatingCells of applyGravityStep.
fallFrom(grid, sorted, i, newGrid, occupiedKeys, anyMoved, fieldShape) ==
  IF i > Len(sorted) THEN [grid |-> newGrid, moved |-> anyMoved]
  ELSE LET coord == keyToAxial(sorted[i])
           targetKey == axialToKey([q |-> coord.q, r |-> coord.r + 1])
           canMove == targetKey \in fieldShape /\ targetKey \notin occupiedKeys
       IN IF canMove
          THEN fallFrom(grid, sorted, i + 1, MapSet(newGrid, targetKey, grid[sorted[i]]),
                        occupiedKeys \cup {targetKey}, TRUE, fieldShape)
          ELSE fallFrom(grid, sorted, i + 1,
                        MapSet(newGrid, axialToKey(coord), grid[sorted[i]]),
                        occupiedKeys \cup {axialToKey(coord)}, anyMoved, fieldShape)

\* Fault: applyGravityStep moves the floating cells and reports moved=false.
applyGravityClassifiedUnreported(grid, filledKeys, classes, fieldShape) ==
  IF filledKeys = {} \/ classes.floating = {} THEN [grid |-> grid, moved |-> FALSE]
  ELSE [fallFrom(grid, sortByRDescending(classes.floating), 1,
                 [key \in classes.grounded |-> grid[key]], classes.grounded, FALSE,
                 fieldShape) EXCEPT !.moved = FALSE]

\* Fault: applyGravityStep leaves the floating cells where they are and
\* reports moved=true.
applyGravityClassifiedStuck(grid, filledKeys, classes, fieldShape) ==
  IF filledKeys = {} \/ classes.floating = {} THEN [grid |-> grid, moved |-> FALSE]
  ELSE [grid |-> [key \in filledKeys |-> grid[key]], moved |-> TRUE]

\* applyGravityStep from the classification of the filled cells on.
applyGravityClassified(grid, filledKeys, classes, fieldShape) ==
  IF filledKeys = {} \/ classes.floating = {} THEN [grid |-> grid, moved |-> FALSE]
  ELSE fallFrom(grid, sortByRDescending(classes.floating), 1,
                [key \in classes.grounded |-> grid[key]], classes.grounded, FALSE,
                fieldShape)

\* applyGravityStep from the set of the filled cells on.
applyGravityFilled(grid, filledKeys, fieldShape) ==
  applyGravityClassified(grid, filledKeys,
                         classifyGroundedAndFloating(filledKeys, fieldShape), fieldShape)

applyGravityStep(grid, fieldShape) ==
  applyGravityFilled(grid, {key \in DOMAIN grid : grid[key].filled}, fieldShape)

RECURSIVE getGravityFrames(_, _)
\* Fault: getGravityFrames stops after the first step.
gravityFramesOnce(step, fieldShape) == IF ~step.moved THEN <<>> ELSE <<step.grid>>

\* The loop of getGravityFrames after one call of applyGravityStep.
gravityFramesAfter(step, fieldShape) ==
  IF ~step.moved THEN <<>>
  ELSE <<step.grid>> \o getGravityFrames(step.grid, fieldShape)

getGravityFrames(grid, fieldShape) ==
  gravityFramesAfter(applyGravityStep(grid, fieldShape), fieldShape)

RECURSIVE detectLinesForAnimation(_, _)
\* Fault: detectLinesForAnimation stops after its first stage.
stagesSettledNoCascade(lines, cleared, gravityFrames, gridAfterGravity, fieldShape) ==
  << [lines |-> lines,
      gridAfterLineClear |-> cleared.gridAfterLineClear,
      bombExplosionCells |-> cleared.bombExplosionCells,
      gridAfterClear |-> cleared.gridAfterBombs,
      gravityFrames |-> gravityFrames,
      gridAfterGravity |-> gridAfterGravity,
      hasMultiplier |-> cleared.hasMultiplier] >>

\* One stage of detectLinesForAnimation, from its gravity frames on, and the
\* stages after it.
stagesSettled(lines, cleared, gravityFrames, gridAfterGravity, fieldShape) ==
  << [lines |-> lines,
      gridAfterLineClear |-> cleared.gridAfterLineClear,
      bombExplosionCells |-> cleared.bombExplosionCells,
      gridAfterClear |-> cleared.gridAfterBombs,
      gravityFrames |-> gravityFrames,
      gridAfterGravity |-> gridAfterGravity,
      hasMultiplier |-> cleared.hasMultiplier] >>
  \o detectLinesForAnimation(gridAfterGravity, fieldShape)

\* One stage of detectLinesForAnimation, from the gravity frames on.
stagesFallen(lines, cleared, gravityFrames, fieldShape) ==
  stagesSettled(lines, cleared, gravityFrames,
                IF Len(gravityFrames) > 0 THEN gravityFrames[Len(gravityFrames)]
                ELSE cleared.gridAfterBombs,
                fieldShape)

\* One stage of detectLinesForAnimation, from the result of clearLines on.
stagesCleared(lines, cleared, fieldShape) ==
  stagesFallen(lines, cleared, getGravityFrames(cleared.gridAfterBombs, fieldShape), fieldShape)

\* detectLinesForAnimation from the detected lines on.
stagesDetected(grid, lines, fieldShape) ==
  IF Len(lines) = 0 THEN <<>>
  ELSE stagesCleared(lines, clearLines(grid, lines, fieldShape), fieldShape)

detectLinesForAnimation(grid, fieldShape) ==
  stagesDetected(grid, detectLines(grid, fieldShape), fieldShape)

(***************************************************************************)
(* animationHelpers.ts                                                     *)
(***************************************************************************)
createBlinkGrid(baseGrid, lines) ==
  LET blinkKeys == {axialToKey(c) : c \in Range(flatCells(lines))}
  IN [key \in DOMAIN baseGrid |->
        IF key \in blinkKeys /\ baseGrid[key].filled
        THEN [baseGrid[key] EXCEPT !.clearing = Len(lines)]
        ELSE baseGrid[key]]

createBombBlinkGrid(baseGrid, bombCells) ==
  LET blinkKeys == {axialToKey(c) : c \in Range(bombCells)}
  IN [key \in DOMAIN baseGrid |->
        IF key \in blinkKeys /\ baseGrid[key].filled
        THEN [baseGrid[key] EXCEPT !.clearing = 1]
        ELSE baseGrid[key]]

(***************************************************************************)
(* scoring.ts                                                              *)
(***************************************************************************)
\* The cascade multipliers 1, 1.5, 2, 2.5, 3 are kept as fractions.
SCORING ==
  [BASE_POINTS_PER_LINE |-> 100,
   POINTS_PER_PIECE_LOCK |-> 10,
   COMBO_MULTIPLIERS |-> <<1, 3, 5, 8>>,
   CASCADE_MULTIPLIERS |-> << [num |-> 1, den |-> 1], [num |-> 3, den |-> 2],
                              [num |-> 2, den |-> 1], [num |-> 5, den |-> 2],
                              [num |-> 3, den |-> 1] >>,
   MAX_CASCADE_STAGE |-> 5,
   LINES_PER_LEVEL |-> 10,
   MAX_LEVEL |-> 20,
   BASE_DROP_SPEED |-> 1000,
   SPEED_DECREASE_PER_LEVEL |-> 50,
   MIN_DROP_SPEED |-> 100]

calculateLockScore(currentLevel) == SCORING.POINTS_PER_PIECE_LOCK * currentLevel

calculateScore(linesCleared, currentLevel) ==
  IF linesCleared = 0 THEN 0
  ELSE LET basePoints == SCORING.BASE_POINTS_PER_LINE * linesCleared
           comboMultiplier == SCORING.COMBO_MULTIPLIERS[Min(linesCleared, 4)]
       IN basePoints * comboMultiplier * currentLevel

\* Fault: the cascade multiplier keeps growing by a half after the fifth stage.
calculateCascadeScoreUncapped(linesCleared, currentLevel, cascadeStage) ==
  IF linesCleared = 0 THEN 0
  ELSE (calculateScore(linesCleared, currentLevel) * (cascadeStage + 1)) \div 2

\* calculateCascadeScore has three parameters; Math.floor(baseScore * m).
calculateCascadeScore(linesCleared, currentLevel, cascadeStage) ==
  IF linesCleared = 0 THEN 0
  ELSE LET baseScore == calculateScore(linesCleared, currentLevel)
           cascadeMultiplier ==
             SCORING.CASCADE_MULTIPLIERS[Min(cascadeStage, SCORING.MAX_CASCADE_STAGE)]
       IN (baseScore * cascadeMultiplier.num) \div cascadeMultiplier.den

\* Fault: the level is not capped.
calculateLevelUncapped(totalLinesCleared) ==
  (totalLinesCleared \div SCORING.LINES_PER_LEVEL) + 1

calculateLevel(totalLinesCleared) ==
  Min((totalLinesCleared \div SCORING.LINES_PER_LEVEL) + 1, SCORING.MAX_LEVEL)

calculateSpeed(level) ==
  Max(SCORING.MIN_DROP_SPEED,
      SCORING.BASE_DROP_SPEED - (level - 1) * SCORING.SPEED_DECREASE_PER_LEVEL)


(***************************************************************************)
(* The state.                                                              *)
(*                                                                         *)
(* gameStore.ts (the zustand store): grid, currentPiece, nextPiece,        *)
(*   pieceHistory, score, level, linesCleared, speed, status, isLocking    *)
(*   and the lock timer.  The store keeps lockStartTime, the value of      *)
(*   performance.now() when the timer was started, or 0; the model keeps   *)
(*   lockElapsed, the time that has passed since then (what gameLoop       *)
(*   computes as currentTime - lockStartTime), or NoTimer for 0.           *)
(* useGameLoop.ts: timeSinceLastDrop, the time that has passed since       *)
(*   lastDropTime.current.                                                 *)
(* useGameController.ts: task, the position and the local variables of the *)
(*   asynchronous continuation that handleLock starts                      *)
(*   (processBombPieceExplosion, continueAfterLock,                        *)
(*   processAllLineClearStages), suspended at an `await delay(..)`.        *)
(* Model bookkeeping: locks and specialRolls count what MaxLocks and       *)
(*   MaxSpecialRolls bound; lastOp names the handler that ran last.        *)
(* The high score fields (isNewHighScore, previousHighScore, the high      *)
(*   score store) and the elapsed-time display are left out: no game rule  *)
(*   reads them.                                                           *)
(***************************************************************************)
VARIABLES grid, currentPiece, nextPiece, pieceHistory, score, level, linesCleared,
          speed, status, isLocking, lockElapsed, timeSinceLastDrop, task, locks,
          specialRolls, lastOp

vars == << grid, currentPiece, nextPiece, pieceHistory, score, level, linesCleared,
           speed, status, isLocking, lockElapsed, timeSinceLastDrop, task, locks,
           specialRolls, lastOp >>

LOCK_DELAY_MS == 500

NoTimer == 0 - 1

\* The values Math.random() takes, in thousandths.
Rolls == {0, 999}

\* A roll below every special chance is drawn only MaxSpecialRolls times.
SpecialRolls(st) == IF st.specialRolls < MaxSpecialRolls THEN Rolls ELSE {999}

NoTask ==
  [pc |-> "none", pending |-> <<>>, stages |-> <<>>, stageIndex |-> 0,
   totalLinesCleared |-> 0, totalPoints |-> 0, stagePoints |-> 0, level |-> 0]

\* One step of an animation: store the grid (or nothing), then await a delay.
Show(g) == [set |-> TRUE, grid |-> g]

JustWait == [set |-> FALSE, grid |-> <<>>]

\* The state as one record, for the handlers that update it step by step.
Store ==
  [grid |-> grid, currentPiece |-> currentPiece, nextPiece |-> nextPiece,
   pieceHistory |-> pieceHistory, score |-> score, level |-> level,
   linesCleared |-> linesCleared, speed |-> speed, status |-> status,
   isLocking |-> isLocking, lockElapsed |-> lockElapsed,
   timeSinceLastDrop |-> timeSinceLastDrop, task |-> task, locks |-> locks,
   specialRolls |-> specialRolls]

initializeGrid == [key \in FIELD_SHAPE |-> EmptyCell]

(***************************************************************************)
(* gameStore.ts: the actions of the store.                                 *)
(***************************************************************************)
spawnPiece(position, excludeTypes, lvl, random, roll, typeRoll) ==
  LET type == getRandomPieceType(excludeTypes, random)
      minROffset == getMinROffset(type)
      adjustedPosition == [q |-> position.q, r |-> position.r - minROffset]
      special == rollSpecialPieceType(lvl, roll, typeRoll)
  IN createPiece(type, adjustedPosition, 0, special)

\* The pieces spawnPiece returns for the rolls of the model, with the state
\* after each.
spawnDraws(st, excludeTypes, lvl) ==
  {[piece |-> spawnPiece(SPAWN_POSITION, excludeTypes, lvl, random, roll, typeRoll),
    st |-> [st EXCEPT !.specialRolls = IF roll = 999 THEN @ ELSE @ + 1]] :
     <<random, roll, typeRoll>> \in
        {x \in Rolls \X SpecialRolls(st) \X Rolls : x[2] = 999 => x[3] = 999}}

\* The states maybeSpawnSpecialCell leaves for the rolls of the model, when
\* the caller stores a grid that differs from the one it passed.
promotionDraws(st, lvl) ==
  {[st EXCEPT !.grid = maybeSpawnSpecialCell(st.grid, FIELD_SHAPE, lvl,
                                             spawnRoll, typeRoll, indexRoll),
              !.specialRolls = IF spawnRoll = 999 THEN @ ELSE @ + 1] :
     <<spawnRoll, typeRoll, indexRoll>> \in
        {x \in SpecialRolls(st) \X Rolls \X Rolls : x[1] = 999 => (x[2] = 999 /\ x[3] = 999)}}

startGame(st) ==
  UNION {{[d2.st EXCEPT !.grid = initializeGrid,
                        !.currentPiece = d1.piece,
                        !.nextPiece = d2.piece,
                        !.pieceHistory = <<d2.piece.type, d1.piece.type>>,
                        !.score = 0, !.level = 1, !.linesCleared = 0,
                        !.speed = SCORING.BASE_DROP_SPEED,
                        !.status = "playing",
                        !.isLocking = FALSE, !.lockElapsed = NoTimer] :
            d2 \in spawnDraws(d1.st, <<d1.piece.type>>, 1)} :
         d1 \in spawnDraws(st, <<>>, 1)}

\* Fault: spawnNextPiece looks at the cell of the piece's position only.
spawnNextPieceCenterOnly(st) ==
  LET nextCurrent == st.nextPiece
  IN IF nextCurrent = NULL THEN {st}
     ELSE IF IsFilled(st.grid, axialToKey(nextCurrent.position))
     THEN {[st EXCEPT !.status = "gameOver", !.currentPiece = nextCurrent]}
     ELSE {[d.st EXCEPT !.currentPiece = nextCurrent,
                        !.nextPiece = d.piece,
                        !.pieceHistory = SubSeq(<<d.piece.type>> \o st.pieceHistory, 1,
                                                Min(3, Len(st.pieceHistory) + 1))] :
             d \in spawnDraws(st, st.pieceHistory, st.level)}

\* Fault: spawnNextPiece chooses the new next piece without excluding the
\* types of the piece history.
spawnNextPieceAnyType(st) ==
  LET nextCurrent == st.nextPiece
      spawnCoords == getPieceCells(nextCurrent)
  IN IF nextCurrent = NULL THEN {st}
     ELSE IF \E i \in DOMAIN spawnCoords : IsFilled(st.grid, axialToKey(spawnCoords[i]))
     THEN {[st EXCEPT !.status = "gameOver", !.currentPiece = nextCurrent]}
     ELSE {[d.st EXCEPT !.currentPiece = nextCurrent,
                        !.nextPiece = d.piece,
                        !.pieceHistory = SubSeq(<<d.piece.type>> \o st.pieceHistory, 1,
                                                Min(3, Len(st.pieceHistory) + 1))] :
             d \in spawnDraws(st, <<>>, st.level)}

spawnNextPiece(st) ==
  LET nextCurrent == st.nextPiece
      spawnCoords == getPieceCells(nextCurrent)
  IN IF nextCurrent = NULL THEN {st}
     ELSE IF \E i \in DOMAIN spawnCoords : IsFilled(st.grid, axialToKey(spawnCoords[i]))
     THEN {[st EXCEPT !.status = "gameOver", !.currentPiece = nextCurrent]}
     ELSE {[d.st EXCEPT !.currentPiece = nextCurrent,
                        !.nextPiece = d.piece,
                        !.pieceHistory = SubSeq(<<d.piece.type>> \o st.pieceHistory, 1,
                                                Min(3, Len(st.pieceHistory) + 1))] :
             d \in spawnDraws(st, st.pieceHistory, st.level)}

RECURSIVE setCells(_, _, _, _)
\* The loop of lockPiece: newGrid.set(key, ..) for the piece's cells from the i-th on.
setCells(newGrid, coords, i, cell) ==
  IF i > Len(coords) THEN newGrid
  ELSE setCells(MapSet(newGrid, axialToKey(coords[i]), cell), coords, i + 1, cell)

\* Fault: lockPiece writes the cells of the piece's shape without moving
\* them to the piece's position.
lockPieceUnplaced(st, piece) ==
  [st EXCEPT !.grid = setCells(st.grid,
                               getPieceCells([piece EXCEPT !.position = [q |-> 0, r |-> 0]]), 1,
                               FilledCell(PIECE_METADATA[piece.type].color, piece.special)),
             !.currentPiece = NULL]

\* Fault: lockPiece writes the cells but leaves the piece current.
lockPieceKeepsCurrent(st, piece) ==
  [st EXCEPT !.grid = setCells(st.grid, getPieceCells(piece), 1,
                               FilledCell(PIECE_METADATA[piece.type].color, piece.special))]

lockPiece(st, piece) ==
  [st EXCEPT !.grid = setCells(st.grid, getPieceCells(piece), 1,
                               FilledCell(PIECE_METADATA[piece.type].color, piece.special)),
             !.currentPiece = NULL]

updateCurrentPiece(st, piece) == [st EXCEPT !.currentPiece = piece]

updateScore(st, points) == [st EXCEPT !.score = st.score + points]

updateLinesCleared(st, count) ==
  LET newLinesCleared == st.linesCleared + count
      newLevel == calculateLevel(newLinesCleared)
  IN [st EXCEPT !.linesCleared = newLinesCleared, !.level = newLevel,
                !.speed = calculateSpeed(newLevel)]

startLocking(st) ==
  IF ~st.isLocking THEN [st EXCEPT !.isLocking = TRUE, !.lockElapsed = 0] ELSE st

resetLocking(st) == [st EXCEPT !.isLocking = TRUE, !.lockElapsed = 0]

cancelLocking(st) == [st EXCEPT !.isLocking = FALSE, !.lockElapsed = NoTimer]


(***************************************************************************)
(* useGameController.ts: the handlers.  A handler that draws random        *)
(* numbers is the set of the states it can leave behind.                   *)
(***************************************************************************)
\* Fault: checkAndUpdateLockState never cancels a lock delay that has begun.
checkAndUpdateLockStateNoCancel(st, piece) ==
  IF st.isLocking THEN resetLocking(st)
  ELSE IF moveDown(piece, st.grid, FIELD_SHAPE) # NULL THEN cancelLocking(st)
  ELSE startLocking(st)

checkAndUpdateLockState(st, piece) ==
  LET canMoveDown == moveDown(piece, st.grid, FIELD_SHAPE) # NULL
  IN IF canMoveDown THEN cancelLocking(st)
     ELSE IF st.isLocking THEN resetLocking(st)
     ELSE startLocking(st)

\* Fault: handleDrop starts no lock delay when the piece cannot move down.
handleDropMovedNoLockDelay(st, movedPiece) ==
  IF movedPiece # NULL THEN cancelLocking(updateCurrentPiece(st, movedPiece))
  ELSE st

\* handleDrop from the result of moveDown on.
handleDropMoved(st, movedPiece) ==
  IF movedPiece # NULL THEN cancelLocking(updateCurrentPiece(st, movedPiece))
  ELSE startLocking(st)

handleDrop(st) ==
  IF st.currentPiece = NULL \/ st.status # "playing" THEN st
  ELSE handleDropMoved(st, moveDown(st.currentPiece, st.grid, FIELD_SHAPE))

trySpawnOrGameOver(st) == spawnNextPiece(st)

\* processLineClearStage up to its first await: the blink grid is stored and
\* the rest of the stage's animation is pending.
processLineClearStage(st, stage, previousGridAfterGravity) ==
  LET currentGrid == IF previousGridAfterGravity = NULL THEN st.grid
                     ELSE previousGridAfterGravity
  IN [st EXCEPT
        !.grid = createBlinkGrid(currentGrid, stage.lines),
        !.task.pending =
           <<Show(stage.gridAfterLineClear)>>
           \o (IF Len(stage.bombExplosionCells) > 0
               THEN <<Show(createBombBlinkGrid(stage.gridAfterLineClear,
                                               stage.bombExplosionCells)),
                      Show(stage.gridAfterClear)>>
               ELSE <<>>)
           \o [i \in DOMAIN stage.gravityFrames |-> Show(stage.gravityFrames[i])]
           \o <<JustWait>>]

\* One turn of the loop of processAllLineClearStages from stagePoints on, up
\* to the first await of the stage.
beginStageScored(st, stageIndex, stage, stagePoints) ==
  processLineClearStage(
    [st EXCEPT !.task.stageIndex = stageIndex,
               !.task.totalLinesCleared = @ + Len(stage.lines),
               !.task.totalPoints = @ + stagePoints,
               !.task.stagePoints = stagePoints,
               !.task.level = st.level],
    stage,
    IF stageIndex = 1 THEN NULL ELSE st.task.stages[stageIndex - 1].gridAfterGravity)

\* Fault: the points of a stage are added to the score when the stage begins.
beginStageAddsPoints(st, stageIndex) ==
  beginStageScored(updateScore(st, calculateCascadeScore(Len(st.task.stages[stageIndex].lines),
                                                         st.level, stageIndex)),
                   stageIndex, st.task.stages[stageIndex],
                   calculateCascadeScore(Len(st.task.stages[stageIndex].lines), st.level,
                                         stageIndex))

\* One turn of the loop of processAllLineClearStages up to the first await
\* of the stage: the totals are advanced and the stage's animation starts.
\* cascadeStage is stageIndex, which counts from 1 here; the fourth argument
\* of the call, stage.hasMultiplier, has no parameter to receive it.
beginStage(st, stageIndex) ==
  beginStageScored(st, stageIndex, st.task.stages[stageIndex],
                   calculateCascadeScore(Len(st.task.stages[stageIndex].lines), st.level,
                                         stageIndex))

\* The end of processAllLineClearStages, after updateScore and
\* updateLinesCleared: the level is computed and stored once more.
finishStagesUpdated(updated, totalLinesCleared) ==
  [updated EXCEPT !.level = calculateLevel(updated.linesCleared + totalLinesCleared),
                  !.speed = calculateSpeed(calculateLevel(updated.linesCleared
                                                          + totalLinesCleared)),
                  !.task = NoTask]

\* The end of processAllLineClearStages, after the last stage.
finishStages(st) ==
  finishStagesUpdated(updateLinesCleared(updateScore(st, st.task.totalPoints),
                                         st.task.totalLinesCleared),
                      st.task.totalLinesCleared)

\* continueAfterLock from the detected stages on.
continueWithStages(s, stages) ==
  IF Len(stages) > 0
  THEN {beginStage([s EXCEPT !.task = [NoTask EXCEPT !.pc = "stages", !.stages = stages]], 1)}
  ELSE trySpawnOrGameOver([s EXCEPT !.task = NoTask])

continueAfterLock(st, lockLevel) ==
  UNION {continueWithStages(s, detectLinesForAnimation(s.grid, FIELD_SHAPE)) :
           s \in promotionDraws(st, lockLevel)}

\* processBombPieceExplosion from the grid after the explosion on.
bombExploded(st, lockLevel, blinkGrid, newGrid, gravityFrames) ==
  [st EXCEPT !.task =
     [NoTask EXCEPT !.pc = "bomb", !.level = lockLevel,
                    !.pending = <<Show(blinkGrid), Show(newGrid)>>
                                \o [i \in DOMAIN gravityFrames |-> Show(gravityFrames[i])]]]

\* processBombPieceExplosion from allAffectedCells on.
bombAffected(st, lockLevel, gridAfterLock, pieceCells, allAffectedCells, newGrid) ==
  bombExploded(st, lockLevel, createBombBlinkGrid(gridAfterLock, allAffectedCells), newGrid,
               getGravityFrames(newGrid, FIELD_SHAPE))

\* processBombPieceExplosion from the cells to destroy on.
bombDestroyed(st, lockLevel, gridAfterLock, pieceCells, cellsToDestroy) ==
  bombAffected(st, lockLevel, gridAfterLock, pieceCells,
               pieceCells \o [i \in DOMAIN cellsToDestroy |-> keyToAxial(cellsToDestroy[i])],
               setCells(applyBombExplosions(gridAfterLock, pieceCells, FIELD_SHAPE),
                        pieceCells, 1, EmptyCell))

\* processBombPieceExplosion from the piece's cells on.
bombPieceCells(st, lockLevel, gridAfterLock, pieceCells) ==
  bombDestroyed(st, lockLevel, gridAfterLock, pieceCells,
            SeqOfSet(bombCellsToDestroy(gridAfterLock, pieceCells, FIELD_SHAPE)
                       \ {axialToKey(pieceCells[i]) : i \in DOMAIN pieceCells}))

\* processBombPieceExplosion up to its first await (delay(16)).
processBombPieceExplosion(st, piece, lockLevel) ==
  bombPieceCells(st, lockLevel, st.grid, getPieceCells(piece))

\* Fault: handleLock goes on to the promotion and the line detection without
\* the explosion of a bomb piece.
handleLockedNoExplosion(locked, lockedPiece, lockLevel) ==
  continueAfterLock(locked, lockLevel)

\* handleLock from the locking of the piece on.
handleLocked(locked, lockedPiece, lockLevel) ==
  IF lockedPiece.special = "bomb"
  THEN {processBombPieceExplosion(locked, lockedPiece, lockLevel)}
  ELSE continueAfterLock(locked, lockLevel)

\* handleLock from the test of moveDown on.
handleLockMoved(st, force, movedPiece) ==
  IF ~force /\ movedPiece # NULL
  THEN {cancelLocking(updateCurrentPiece(st, movedPiece))}
  ELSE handleLocked(
         [updateScore(lockPiece(cancelLocking(st), st.currentPiece),
                      calculateLockScore(st.level)) EXCEPT !.locks = @ + 1],
         st.currentPiece, st.level)

handleLock(st, force) ==
  IF st.currentPiece = NULL \/ st.status # "playing" THEN {st}
  ELSE handleLockMoved(st, force, moveDown(st.currentPiece, st.grid, FIELD_SHAPE))

\* The continuation of the suspended task when its delay has passed.
resumeTask(st) ==
  IF st.task.pending # <<>>
  THEN {[st EXCEPT !.grid = IF Head(st.task.pending).set THEN Head(st.task.pending).grid
                            ELSE st.grid,
                   !.task.pending = Tail(st.task.pending)]}
  ELSE IF st.task.pc = "bomb" THEN continueAfterLock(st, st.task.level)
  ELSE UNION {IF s.task.stageIndex < Len(s.task.stages)
              THEN {beginStage(s, s.task.stageIndex + 1)}
              ELSE trySpawnOrGameOver(finishStages(s)) :
              s \in promotionDraws(st, st.task.level)}

\* Fault: a successful move stores the piece and leaves the lock state alone.
onMoveNoLockCheck(st, moved) ==
  IF st.currentPiece = NULL \/ moved = NULL THEN st
  ELSE updateCurrentPiece(st, moved)

onMove(st, moved) ==
  IF st.currentPiece = NULL \/ moved = NULL THEN st
  ELSE checkAndUpdateLockState(updateCurrentPiece(st, moved), moved)

\* Fault: a left command moves the piece sideways in Locking too.
onMoveLeftPlain(st) ==
  IF st.currentPiece = NULL THEN st
  ELSE onMove(st, moveLeft(st.currentPiece, st.grid, FIELD_SHAPE))

onMoveLeft(st) ==
  IF st.currentPiece = NULL THEN st
  ELSE onMove(st, IF st.isLocking THEN moveDownLeft(st.currentPiece, st.grid, FIELD_SHAPE)
                  ELSE moveLeft(st.currentPiece, st.grid, FIELD_SHAPE))

onMoveRight(st) ==
  IF st.currentPiece = NULL THEN st
  ELSE onMove(st, IF st.isLocking THEN moveDownRight(st.currentPiece, st.grid, FIELD_SHAPE)
                  ELSE moveRight(st.currentPiece, st.grid, FIELD_SHAPE))

onMoveDown(st) ==
  IF st.currentPiece = NULL THEN st
  ELSE onMove(st, moveDown(st.currentPiece, st.grid, FIELD_SHAPE))

onRotate(st) ==
  IF st.currentPiece = NULL THEN st
  ELSE onMove(st, rotateWithWallKick(st.currentPiece, st.grid, FIELD_SHAPE))

\* Fault: a hard drop moves the piece to its drop position and does not lock it.
onHardDropNoLock(st) ==
  IF st.currentPiece = NULL THEN {st}
  ELSE {updateCurrentPiece(st, hardDrop(st.currentPiece, st.grid, FIELD_SHAPE))}

onHardDrop(st) ==
  IF st.currentPiece = NULL THEN {st}
  ELSE handleLock(updateCurrentPiece(st, hardDrop(st.currentPiece, st.grid, FIELD_SHAPE)), TRUE)


(***************************************************************************)
(* The state machine.                                                      *)
(***************************************************************************)
Init ==
  /\ grid = initializeGrid
  /\ currentPiece = NULL
  /\ nextPiece = NULL
  /\ pieceHistory = <<>>
  /\ score = 0
  /\ level = 1
  /\ linesCleared = 0
  /\ speed = SCORING.BASE_DROP_SPEED
  /\ status = "idle"
  /\ isLocking = FALSE
  /\ lockElapsed = NoTimer
  /\ timeSinceLastDrop = 0
  /\ task = NoTask
  /\ locks = 0
  /\ specialRolls = 0
  /\ lastOp = "init"

\* The state st is the next state and op the handler that produced it.  The
\* effect of useGameLoop runs again when status or speed has changed, and if
\* the game is playing it sets lastDropTime to the current time.
Commit(st, op) ==
  /\ grid' = st.grid
  /\ currentPiece' = st.currentPiece
  /\ nextPiece' = st.nextPiece
  /\ pieceHistory' = st.pieceHistory
  /\ score' = st.score
  /\ level' = st.level
  /\ linesCleared' = st.linesCleared
  /\ speed' = st.speed
  /\ status' = st.status
  /\ isLocking' = st.isLocking
  /\ lockElapsed' = st.lockElapsed
  /\ timeSinceLastDrop' = IF st.status = "playing" /\ (status # "playing" \/ st.speed # speed)
                          THEN 0 ELSE st.timeSinceLastDrop
  /\ task' = st.task
  /\ locks' = st.locks
  /\ specialRolls' = st.specialRolls
  /\ lastOp' = op

\* The first key press in Idle, or Play Again after the game is over.
StartGame ==
  /\ status \in {"idle", "gameOver"}
  /\ task.pc = "none"
  /\ \E st \in startGame(Store) : Commit(st, "startGame")

\* Fault: the time that passes does not count for the lock delay.
AdvanceDropClockOnly ==
  /\ status = "playing"
  /\ timeSinceLastDrop < SCORING.BASE_DROP_SPEED
  /\ timeSinceLastDrop' = Min(timeSinceLastDrop + TimeStep, SCORING.BASE_DROP_SPEED)
  /\ lastOp' = "advance"
  /\ UNCHANGED << grid, currentPiece, nextPiece, pieceHistory, score, level, linesCleared,
                  speed, status, isLocking, lockElapsed, task, locks, specialRolls >>

\* Time passes.  The clocks stop counting where no comparison of the game
\* loop can tell the difference any more.
Advance ==
  /\ status = "playing"
  /\ \/ lockElapsed # NoTimer /\ lockElapsed < LOCK_DELAY_MS
     \/ timeSinceLastDrop < SCORING.BASE_DROP_SPEED
  /\ lockElapsed' = IF lockElapsed = NoTimer THEN NoTimer
                    ELSE Min(lockElapsed + TimeStep, LOCK_DELAY_MS)
  /\ timeSinceLastDrop' = Min(timeSinceLastDrop + TimeStep, SCORING.BASE_DROP_SPEED)
  /\ lastOp' = "advance"
  /\ UNCHANGED << grid, currentPiece, nextPiece, pieceHistory, score, level, linesCleared,
                  speed, status, isLocking, task, locks, specialRolls >>

\* gameLoop, a frame in which the lock delay has expired: onLock().
FrameLockExpired ==
  /\ status = "playing"
  /\ isLocking /\ lockElapsed # NoTimer /\ lockElapsed >= LOCK_DELAY_MS
  /\ locks < MaxLocks
  /\ \E st \in handleLock(Store, FALSE) :
        Commit([st EXCEPT !.timeSinceLastDrop = 0], "lockExpired")

\* Fault: the game loop issues the drop tick without looking at isLocking.
FrameDropWhileLocking ==
  /\ status = "playing"
  /\ timeSinceLastDrop >= speed
  /\ Commit([handleDrop(Store) EXCEPT !.timeSinceLastDrop = 0], "drop")

\* gameLoop, a frame in which the drop is due and the piece is not locking:
\* onDrop().
FrameDrop ==
  /\ status = "playing"
  /\ ~isLocking
  /\ timeSinceLastDrop >= speed
  /\ Commit([handleDrop(Store) EXCEPT !.timeSinceLastDrop = 0], "drop")

\* gameLoop, a frame in which neither branch is taken.
FrameIdle ==
  /\ status = "playing"
  /\ ~(isLocking /\ lockElapsed # NoTimer /\ lockElapsed >= LOCK_DELAY_MS)
  /\ ~(~isLocking /\ timeSinceLastDrop >= speed)
  /\ Commit(Store, "frame")

\* Fault: useKeyboard stays enabled when the game is over.
KeysEnabledAfterGameOver == status \in {"playing", "idle", "gameOver"}

\* useKeyboard is enabled while the game is Playing or Idle.
KeysEnabled == status \in {"playing", "idle"}

OnMoveLeft == KeysEnabled /\ Commit(onMoveLeft(Store), "moveLeft")

OnMoveRight == KeysEnabled /\ Commit(onMoveRight(Store), "moveRight")

OnMoveDown == KeysEnabled /\ Commit(onMoveDown(Store), "moveDown")

OnRotate ==
  /\ KeysEnabled
  /\ currentPiece # NULL => currentPiece.rotation < MaxRotation
  /\ Commit(onRotate(Store), "rotate")

OnHardDrop ==
  /\ KeysEnabled
  /\ (currentPiece # NULL /\ status = "playing") => locks < MaxLocks
  /\ \E st \in onHardDrop(Store) : Commit(st, "hardDrop")

\* The delay the suspended task awaits has passed.
ResumeTask ==
  /\ task.pc # "none"
  /\ \E st \in resumeTask(Store) : Commit(st, "resume")

Next ==
  \/ StartGame
  \/ Advance
  \/ FrameLockExpired
  \/ FrameDrop
  \/ FrameIdle
  \/ OnMoveLeft
  \/ OnMoveRight
  \/ OnMoveDown
  \/ OnRotate
  \/ OnHardDrop
  \/ ResumeTask

Spec == Init /\ [][Next]_vars


(***************************************************************************)
(* A game in progress.  Seven lines have been cleared, one at a time, at   *)
(* level 1, and eight pieces have locked (7 * 100 + 8 * 10 points).  What  *)
(* the clears and the gravity after them left of the earlier pieces is one *)
(* cell in the bottom row, which a promotion has frozen; the grid holds    *)
(* only the keys of filled cells, as applyGravityStep returns it.  The     *)
(* eighth piece, an O piece, has then locked at the right wall without     *)
(* completing a line, and a P piece has spawned.  The next piece is a U    *)
(* piece, whose spawn cells the O piece blocks, or an S piece, whose spawn *)
(* cells are free.  One more piece locks and no roll comes out special.    *)
(***************************************************************************)
MidGameGrid ==
  [key \in {<<1, 3>>} |-> FilledCell(PIECE_METADATA["S_PIECE"].color, "frozen")]
  @@ [key \in Range([i \in 1..4 |->
                       axialToKey(getPieceCells(createPiece("O_PIECE", [q |-> 3, r |-> 1],
                                                            1, "none"))[i])])
        |-> FilledCell(PIECE_METADATA["O_PIECE"].color, "none")]

InitMidGame ==
  /\ grid = MidGameGrid
  /\ currentPiece = createPiece("P_PIECE",
                                [q |-> SPAWN_POSITION.q,
                                 r |-> SPAWN_POSITION.r - getMinROffset("P_PIECE")],
                                0, "none")
  /\ \E type \in {"U_PIECE", "S_PIECE"} :
        /\ nextPiece = createPiece(type,
                                   [q |-> SPAWN_POSITION.q,
                                    r |-> SPAWN_POSITION.r - getMinROffset(type)],
                                   0, "none")
        /\ pieceHistory = <<type, "P_PIECE", "O_PIECE">>
  /\ score = 780
  /\ level = 1
  /\ linesCleared = 7
  /\ speed = SCORING.BASE_DROP_SPEED
  /\ status = "playing"
  /\ isLocking = FALSE
  /\ lockElapsed = NoTimer
  /\ timeSinceLastDrop = 0
  /\ task = NoTask
  /\ locks = MaxLocks - 1
  /\ specialRolls = MaxSpecialRolls
  /\ lastOp = "hardDrop"

SpecMidGame == InitMidGame /\ [][Next]_vars

(***************************************************************************)
(* Properties.                                                             *)
(***************************************************************************)
\* The blink of a stage is on display: the cells of the stage's lines carry
\* the clearing mark and the stage's cleared grid is what comes next.
StageBlinking ==
  /\ task.pc = "stages"
  /\ task.pending # <<>>
  /\ Head(task.pending) = Show(task.stages[task.stageIndex].gridAfterLineClear)

\* The frozen cells of the lines the blinking stage clears.
FrozenCellsInBatch ==
  {key \in DOMAIN grid : /\ grid[key].filled /\ grid[key].clearing > 0
                         /\ grid[key].special = "frozen" /\ ~grid[key].frozenCleared}

\* The cell at key has survived the batch as an ordinary filled cell that
\* remembers it was frozen.
SurvivedBatch(g, key) ==
  /\ key \in DOMAIN g
  /\ g[key].filled /\ g[key].frozenCleared /\ g[key].special = "none"

\* C1: a frozen cell that lies on a line of a clear batch is still there
\* after the batch, whatever lines the batch contains: filled, marked
\* frozenCleared and without its special tag.
C1_FrozenSurvivesBatch ==
  StageBlinking =>
    \A key \in FrozenCellsInBatch :
       SurvivedBatch(task.stages[task.stageIndex].gridAfterLineClear, key)

\* C1, a case the code gets right: a frozen cell of a cleared line has
\* survived its first batch.
C1_FrozenSurvived ==
  /\ StageBlinking
  /\ \E key \in FrozenCellsInBatch :
        SurvivedBatch(task.stages[task.stageIndex].gridAfterLineClear, key)


\* C2: the points of a stage whose lines hold a multiplier cell are exactly
\* twice the points the stage earns without one (the lines' points at the
\* level, times the cascade multiplier of the stage, rounded down).
C2_MultiplierDoublesStagePoints ==
  (task.pc = "stages" /\ task.stages[task.stageIndex].hasMultiplier) =>
     task.stagePoints =
       2 * calculateCascadeScore(Len(task.stages[task.stageIndex].lines), task.level,
                                 task.stageIndex)

\* C2, the case: a stage that holds a multiplier cell has been scored.
C2_MultiplierStageScored ==
  /\ task.pc = "stages"
  /\ task.stages[task.stageIndex].hasMultiplier
  /\ task.stagePoints > 0

\* C3: once a lock and its whole cascade are over, the level is
\* min(floor(linesCleared / 10) + 1, 20).
C3_LevelFollowsLinesCleared ==
  (status \in {"playing", "gameOver"} /\ task.pc = "none") =>
     level = Min((linesCleared \div 10) + 1, 20)

\* C3, the case: a cascade that cleared lines is over.
C3_CascadeOver ==
  /\ status \in {"playing", "gameOver"}
  /\ task.pc = "none"
  /\ lastOp = "resume"
  /\ linesCleared > 7

\* Every grid the state holds: the store's grid and the grids the suspended
\* task is going to store.
HeldGrids ==
  {grid} \cup {task.pending[i].grid : i \in {j \in DOMAIN task.pending : task.pending[j].set}}
         \cup UNION {{task.stages[i].gridAfterLineClear, task.stages[i].gridAfterClear,
                      task.stages[i].gridAfterGravity} : i \in DOMAIN task.stages}

\* C4 as stated: the key set of every grid held is exactly the set of the
\* Field's keys.
C4_GridKeysAreFieldKeys == \A g \in HeldGrids : DOMAIN g = FIELD_SHAPE

\* C4, amended: every key of every grid held is a key of the Field, every
\* cell outside the key set reads as empty, and the grid startGame stores
\* has exactly the Field's keys.
C4_GridKeysWithinField ==
  /\ \A g \in HeldGrids : DOMAIN g \subseteq FIELD_SHAPE
  /\ \A g \in HeldGrids : \A key \in FIELD_SHAPE \ DOMAIN g : ~IsFilled(g, key)
  /\ lastOp = "startGame" => DOMAIN grid = FIELD_SHAPE

\* C4, the case: a line clear has removed keys from the grid on display.
C4_KeysRemoved ==
  /\ lastOp = "resume"
  /\ DOMAIN grid # FIELD_SHAPE
  /\ DOMAIN grid \subseteq FIELD_SHAPE


\* The steps of the game loop, of the move and rotation keys, and of all the
\* inputs that act on the current piece.
FrameOps == {"lockExpired", "drop", "frame"}

MoveOps == {"moveLeft", "moveRight", "moveDown", "rotate"}

InputOps == FrameOps \cup MoveOps \cup {"hardDrop"}

\* The piece is Locking and its timer has run for the whole lock delay.
LockExpired ==
  /\ status = "playing" /\ currentPiece # NULL
  /\ isLocking /\ lockElapsed # NoTimer /\ lockElapsed >= 500

\* The four cells of the piece are filled in the grid g.
PieceCellsFilled(g, piece) ==
  \A i \in DOMAIN getPieceCells(piece) : IsFilled(g, axialToKey(getPieceCells(piece)[i]))

\* C5: when the piece has been Locking for at least 500 ms since its timer
\* was last started, the next frame of the game loop locks it where it is:
\* its four cells are written to the grid, it stops being the current piece
\* and the lock delay is cleared.
C5_ExpiredLockLocks ==
  [][(LockExpired /\ lastOp' \in FrameOps) =>
       /\ lastOp' = "lockExpired"
       /\ PieceCellsFilled(grid', currentPiece)
       /\ currentPiece' \in {NULL, nextPiece}
       /\ ~isLocking' /\ lockElapsed' = NoTimer
       /\ locks' = locks + 1]_vars

\* C5, the case: the frame after the lock delay has locked a piece, and the
\* lock has started a cascade.
C5_LockedByExpiry == lastOp = "lockExpired" /\ currentPiece = NULL /\ task.pc # "none"

\* C6: a drop tick for a Free piece that cannot move down leaves the piece
\* where it is and makes it Locking with the timer started at the tick; a
\* drop tick for a Free piece that can move down moves it one row down and
\* leaves it Free.
C6_DropTick ==
  [][(lastOp' = "drop" /\ status = "playing" /\ currentPiece # NULL /\ ~isLocking) =>
       IF moveDown(currentPiece, grid, FIELD_SHAPE) = NULL
       THEN currentPiece' = currentPiece /\ isLocking' /\ lockElapsed' = 0
       ELSE /\ currentPiece' = [currentPiece EXCEPT !.position.r = @ + 1]
            /\ ~isLocking' /\ lockElapsed' = NoTimer]_vars

\* C6, the case: a drop tick has found the piece unable to move down and has
\* started the lock delay.
C6_DropTickStartedLocking ==
  lastOp = "drop" /\ currentPiece # NULL /\ isLocking /\ lockElapsed = 0

\* C7 as stated: a drop tick that finds the piece unable to move down while
\* the piece is already Locking restarts the timer at the tick (the frame
\* in which the drop is due, the lock delay not yet over).
C7_DropTickRestartsTimer ==
  [][(/\ lastOp' \in FrameOps
      /\ status = "playing" /\ currentPiece # NULL
      /\ isLocking /\ lockElapsed < 500
      /\ timeSinceLastDrop >= speed
      /\ moveDown(currentPiece, grid, FIELD_SHAPE) = NULL) =>
       (isLocking' /\ lockElapsed' = 0)]_vars

\* C7, amended: while the piece is Locking and the lock delay is not over,
\* a frame of the game loop issues no drop tick, whether the drop is due or
\* not: the piece, the lock state and the timer stay as they are.
C7_NoDropTickWhileLocking ==
  [][(lastOp' \in FrameOps /\ status = "playing" /\ isLocking /\ lockElapsed < 500) =>
       /\ lastOp' = "frame"
       /\ UNCHANGED << currentPiece, grid, isLocking, lockElapsed, timeSinceLastDrop >>]_vars

\* C7, the case: a frame has passed with the drop due while the piece was
\* Locking, the timer running and not restarted.
C7_FrameWithDropDueWhileLocking ==
  /\ lastOp = "frame" /\ status = "playing" /\ currentPiece # NULL
  /\ isLocking /\ lockElapsed > 0 /\ lockElapsed < 500
  /\ timeSinceLastDrop >= speed

\* C8: after every successful move or rotation the lock rule is evaluated
\* again in the same step: the piece is Free if it can move down from its
\* new position, and otherwise Locking with the timer started at the step.
C8_LockRuleAfterMove ==
  [][(lastOp' \in MoveOps /\ currentPiece # NULL /\ currentPiece' # currentPiece) =>
       IF moveDown(currentPiece', grid', FIELD_SHAPE) # NULL
       THEN ~isLocking' /\ lockElapsed' = NoTimer
       ELSE isLocking' /\ lockElapsed' = 0]_vars

\* C8, the case: a rotation has succeeded (a piece is rotated once at most)
\* and has left the piece unable to move down.
C8_RotatedIntoLocking ==
  /\ lastOp = "rotate" /\ currentPiece # NULL /\ currentPiece.rotation = MaxRotation
  /\ isLocking /\ lockElapsed = 0

\* C9: a hard drop while a piece is current and the game is Playing locks
\* the piece at its drop position in the same step, whether it was Free or
\* Locking, and the lock delay is cleared.
C9_HardDropLocks ==
  [][(lastOp' = "hardDrop" /\ status = "playing" /\ currentPiece # NULL) =>
       /\ PieceCellsFilled(grid', hardDrop(currentPiece, grid, FIELD_SHAPE))
       /\ currentPiece' \in {NULL, nextPiece}
       /\ ~isLocking' /\ lockElapsed' = NoTimer
       /\ locks' = locks + 1]_vars

\* C9, the case: a hard drop has locked a piece and the lock has started a
\* cascade.
C9_LockedByHardDrop == lastOp = "hardDrop" /\ currentPiece = NULL /\ task.pc # "none"

\* C10: from the lock until the next piece spawns (the cascade's frames are
\* playing), no move, rotation, hard drop, drop tick or lock expiry changes
\* the grid, the score or the piece state.
C10_InputsIgnoredDuringCascade ==
  [][(task.pc # "none" /\ lastOp' \in InputOps) =>
       UNCHANGED << grid, score, level, linesCleared, currentPiece, nextPiece,
                    isLocking, lockElapsed, task >>]_vars

\* C10, the case: a move key was pressed while the cascade was playing.
C10_MoveDuringCascade ==
  lastOp = "moveLeft" /\ status = "playing" /\ currentPiece = NULL /\ task.pc # "none"


(***************************************************************************)
(* The engine on its own.  lineDetection.ts and specialCells.ts are pure   *)
(* functions of a grid; here they are applied to every grid of the field   *)
(* that has at most MaxFilled filled cells, one of which may be a bomb or  *)
(* a frozen cell, and to the grids they return.  The other variables of    *)
(* the store keep their initial values.                                    *)
(***************************************************************************)
MaxFilled == 4

\* The colour of the filled cells of these grids (the I piece's).
EngineColor == PIECE_METADATA["I_PIECE"].color

\* The sets in `smaller`, and each of them with one more element of S.
ExtendSets(smaller, S) == smaller \cup {T \cup {x} : T \in smaller, x \in S}

RECURSIVE SubsetsUpTo(_, _)
\* The subsets of S that have at most n elements.
SubsetsUpTo(S, n) == IF n = 0 THEN {{}} ELSE ExtendSets(SubsetsUpTo(S, n - 1), S)

\* A grid with a key for every cell of the field, as initializeGrid and
\* lockPiece build it.
EngineGrid(filledKeys, specialKeys, special) ==
  [key \in FIELD_SHAPE |->
     IF key \in filledKeys
     THEN FilledCell(EngineColor, IF key \in specialKeys THEN special ELSE "none")
     ELSE EmptyCell]

InitEngine ==
  /\ \E filledKeys \in SubsetsUpTo(FIELD_SHAPE, MaxFilled) :
        \E specialKeys \in {{}} \cup {{key} : key \in filledKeys} :
           \E special \in {"bomb", "frozen"} :
              grid = EngineGrid(filledKeys, specialKeys, special)
  /\ currentPiece = NULL
  /\ nextPiece = NULL
  /\ pieceHistory = <<>>
  /\ score = 0
  /\ level = 1
  /\ linesCleared = 0
  /\ speed = SCORING.BASE_DROP_SPEED
  /\ status = "idle"
  /\ isLocking = FALSE
  /\ lockElapsed = NoTimer
  /\ timeSinceLastDrop = 0
  /\ task = NoTask
  /\ locks = 0
  /\ specialRolls = 0
  /\ lastOp = "init"

\* The grid g is the result of the engine function op.
EngineReturns(g, op) ==
  /\ grid' = g
  /\ lastOp' = op
  /\ UNCHANGED << currentPiece, nextPiece, pieceHistory, score, level, linesCleared, speed,
                  status, isLocking, lockElapsed, timeSinceLastDrop, task, locks,
                  specialRolls >>

\* applyGravityStep on a grid in which something falls.
EngineGravityStep ==
  /\ applyGravityStep(grid, FIELD_SHAPE).moved
  /\ EngineReturns(applyGravityStep(grid, FIELD_SHAPE).grid, "applyGravityStep")

\* detectLines and clearLines on a grid that has a complete line.
EngineClearLines ==
  /\ Len(detectLines(grid, FIELD_SHAPE)) > 0
  /\ EngineReturns(clearLines(grid, detectLines(grid, FIELD_SHAPE), FIELD_SHAPE).gridAfterBombs,
                   "clearLines")

\* The grid the last stage of a cascade settles to.
LastGrid(stages) == stages[Len(stages)].gridAfterGravity

\* detectLinesForAnimation on a grid that has a complete line: the grid the
\* cascade ends with.
EngineCascade ==
  /\ Len(detectLines(grid, FIELD_SHAPE)) > 0
  /\ EngineReturns(LastGrid(detectLinesForAnimation(grid, FIELD_SHAPE)),
                   "detectLinesForAnimation")

NextEngine ==
  \/ EngineGravityStep
  \/ EngineClearLines
  \/ EngineCascade

SpecEngine == InitEngine /\ [][NextEngine]_vars

\* The keys of the filled cells of the grid g.
FilledKeys(g) == {key \in FIELD_SHAPE : IsFilled(g, key)}

\* The constant of a cell on its line of a direction family: r for
\* diagonalRight, q + r for diagonalLeft.
LineConstantOf(key, direction) ==
  IF direction = "diagonalRight" THEN key[2] ELSE key[1] + key[2]

\* The cells of the field on the line of the cell `on` in a direction.
LineCellsThrough(on, direction) ==
  {key \in FIELD_SHAPE : LineConstantOf(key, direction) = LineConstantOf(on, direction)}

\* The lines of the field, each as its direction and the set of its cells.
FieldLineSets ==
  {[direction |-> direction, cells |-> LineCellsThrough(on, direction)] :
     on \in FIELD_SHAPE, direction \in {"diagonalRight", "diagonalLeft"}}

\* The complete lines of the grid g: the lines of the field all of whose
\* cells are filled, each as its direction and the set of its cells.
CompleteLineSets(g) == {line \in FieldLineSets : line.cells \subseteq FilledKeys(g)}

\* The lines of a list of lines, each as its direction and the set of its
\* cells.
LinesAsSets(lines) ==
  {[direction |-> lines[i].direction,
    cells |-> {axialToKey(lines[i].cells[n]) : n \in DOMAIN lines[i].cells}] :
     i \in DOMAIN lines}

\* The stages are the cascade of the grid g.
IsCascadeOf(stages, g) ==
  /\ (Len(stages) = 0) <=> (CompleteLineSets(g) = {})
  /\ \A i \in DOMAIN stages :
        /\ Len(stages[i].lines) = Cardinality(LinesAsSets(stages[i].lines))
        /\ LinesAsSets(stages[i].lines) =
             CompleteLineSets(IF i = 1 THEN g ELSE stages[i - 1].gridAfterGravity)
  /\ Len(stages) > 0 => CompleteLineSets(stages[Len(stages)].gridAfterGravity) = {}

\* C11: detectLinesForAnimation returns the cascade in order: the first
\* stage clears exactly the complete lines of the input grid, every later
\* stage exactly the complete lines of the grid the stage before it settled
\* to, the grid the last stage settles to has no complete line, and the list
\* is empty exactly when the input grid has no complete line.
C11_CascadeInOrder == IsCascadeOf(detectLinesForAnimation(grid, FIELD_SHAPE), grid)

\* C11, the case: the cascade of the grid has more than one stage.
C11_CascadeOfTwoStages == Len(detectLinesForAnimation(grid, FIELD_SHAPE)) > 1


\* Two cells of the hexagonal grid are adjacent.
Adjacent(a, b) ==
  <<a[1] - b[1], a[2] - b[2]>> \in
    {<<0, -1>>, <<1, -1>>, <<1, 0>>, <<0, 1>>, <<-1, 1>>, <<-1, 0>>}

\* The cells of the lines.
KeysOfLines(lines) == UNION {line.cells : line \in LinesAsSets(lines)}

\* The bomb cells that the clearing of the lines removes from the grid g.
RemovedBombs(g, lines) == {key \in KeysOfLines(lines) : g[key].special = "bomb"}

\* The filled cells of the grid after the line removal that are adjacent to
\* one of the bombs.
BombNeighbors(gridAfterLineClear, bombs) ==
  {key \in FilledKeys(gridAfterLineClear) : \E bomb \in bombs : Adjacent(key, bomb)}

\* What clearLines returned for the lines of g destroys exactly the filled
\* neighbours of the removed bombs and reports exactly them.
ExplodesExactly(g, lines, cleared) ==
  /\ FilledKeys(cleared.gridAfterBombs) =
       FilledKeys(cleared.gridAfterLineClear)
         \ BombNeighbors(cleared.gridAfterLineClear, RemovedBombs(g, lines))
  /\ {axialToKey(cleared.bombExplosionCells[i]) : i \in DOMAIN cleared.bombExplosionCells} =
       BombNeighbors(cleared.gridAfterLineClear, RemovedBombs(g, lines))
  /\ Len(cleared.bombExplosionCells) =
       Cardinality(BombNeighbors(cleared.gridAfterLineClear, RemovedBombs(g, lines)))
  /\ \A key \in FilledKeys(cleared.gridAfterBombs) :
        cleared.gridAfterBombs[key] = cleared.gridAfterLineClear[key]

\* C12: when the lines cleared hold bomb cells, the explosions destroy
\* exactly the filled cells of the field that are adjacent to a removed bomb
\* in the grid after the line removal, no other cell, and
\* bombExplosionCells is exactly the set of the destroyed cells.
C12_BombsDestroyNeighbors ==
  ExplodesExactly(grid, detectLines(grid, FIELD_SHAPE),
                  clearLines(grid, detectLines(grid, FIELD_SHAPE), FIELD_SHAPE))

\* The clearing destroys a neighbour of a bomb and leaves another cell.
ExplosionSpares(cleared) ==
  /\ Len(cleared.bombExplosionCells) > 0
  /\ FilledKeys(cleared.gridAfterBombs) # {}

\* C12, the case: a bomb lies on a complete line of the grid, a filled cell
\* next to it is destroyed and a filled cell away from it stays.
C12_BombExplodes ==
  ExplosionSpares(clearLines(grid, detectLines(grid, FIELD_SHAPE), FIELD_SHAPE))


\* The cells of the column q of the field, and the n bottom-most of them.
ColumnKeys(q) == {key \in FIELD_SHAPE : key[1] = q}

BottomMost(q, n) ==
  {key \in ColumnKeys(q) : Cardinality({below \in ColumnKeys(q) : below[2] >= key[2]}) <= n}

\* The grid at rest that repeating applyGravityStep on g ends with.
SettledFrom(g, frames) == IF Len(frames) = 0 THEN g ELSE frames[Len(frames)]

Settled(g) == SettledFrom(g, getGravityFrames(g, FIELD_SHAPE))

\* In the grid `settled` every column holds as many filled cells as in g,
\* in its bottom-most cells.
ColumnsPacked(g, settled) ==
  \A q \in 0..(FIELD_COLUMNS - 1) :
     FilledKeys(settled) \cap ColumnKeys(q) =
       BottomMost(q, Cardinality(FilledKeys(g) \cap ColumnKeys(q)))

RestsAfter(step, again) ==
  ~step.moved => (~again.moved /\ FilledKeys(again.grid) = FilledKeys(step.grid))

\* C14: once applyGravityStep reports moved=false, a further call on the
\* grid it returned reports moved=false too and returns the same filled
\* cells.
C14_GravityIdempotent ==
  RestsAfter(applyGravityStep(grid, FIELD_SHAPE),
             applyGravityStep(applyGravityStep(grid, FIELD_SHAPE).grid, FIELD_SHAPE))

\* C14, the case: a grid that a gravity step returned and that holds filled
\* cells is at rest.
C14_AtRestAfterStep ==
  /\ lastOp = "applyGravityStep"
  /\ FilledKeys(grid) # {}
  /\ ~applyGravityStep(grid, FIELD_SHAPE).moved

\* The lines are, one for one, the lines of the field whose cells are all
\* filled in g.
ReportsCompleteLines(lines, g) ==
  /\ LinesAsSets(lines) = CompleteLineSets(g)
  /\ Len(lines) = Cardinality(CompleteLineSets(g))

\* C15: detectLines reports a line for a constant of a direction (r for
\* diagonalRight, q+r for diagonalLeft) exactly when every cell of the field
\* with that constant is filled, and reports the complete lines of both
\* directions together.
C15_DetectsCompleteLines == ReportsCompleteLines(detectLines(grid, FIELD_SHAPE), grid)

\* C15, the case: complete lines of both directions are reported while a
\* line of more than one cell through a filled cell is not complete.
C15_BothFamiliesAndPartial ==
  /\ \A direction \in Range(LineDirections) :
        \E i \in DOMAIN detectLines(grid, FIELD_SHAPE) :
           detectLines(grid, FIELD_SHAPE)[i].direction = direction
  /\ \E line \in FieldLineSets \ CompleteLineSets(grid) :
        line.cells \cap FilledKeys(grid) # {}

\* GameBoard: the ghost piece, the preview of where the piece will land.
ghostPiece(piece, g) ==
  [piece EXCEPT !.position = calculateDropPosition(piece, g, FIELD_SHAPE)]

(***************************************************************************)
(* The pieces on their own: rotatePiece, rotateWithWallKick, moveDown and  *)
(* hardDrop applied to a piece of any type, at any cell of the field and   *)
(* with any rotation value from -MaxTurns to MaxTurns, on a grid with at   *)
(* most MaxObstacles filled cells.  currentPiece holds the piece and       *)
(* lastOp names the function that returned it.                             *)
(***************************************************************************)
MaxTurns == 7

MaxObstacles == 1

InitPieces ==
  /\ \E obstacles \in SubsetsUpTo(FIELD_SHAPE, MaxObstacles) :
        grid = EngineGrid(obstacles, {}, "none")
  /\ \E type \in Range(PieceTypes) :
        \E key \in FIELD_SHAPE :
           \E rotation \in (0 - MaxTurns)..MaxTurns :
              currentPiece = createPiece(type, keyToAxial(key), rotation, "none")
  /\ nextPiece = NULL
  /\ pieceHistory = <<>>
  /\ score = 0
  /\ level = 1
  /\ linesCleared = 0
  /\ speed = SCORING.BASE_DROP_SPEED
  /\ status = "idle"
  /\ isLocking = FALSE
  /\ lockElapsed = NoTimer
  /\ timeSinceLastDrop = 0
  /\ task = NoTask
  /\ locks = 0
  /\ specialRolls = 0
  /\ lastOp = "init"

\* The piece is the result of the function op.
PieceReturns(piece, op) ==
  /\ currentPiece' = piece
  /\ lastOp' = op
  /\ UNCHANGED << grid, nextPiece, pieceHistory, score, level, linesCleared, speed,
                  status, isLocking, lockElapsed, timeSinceLastDrop, task, locks,
                  specialRolls >>

\* rotatePiece, while the rotation value stays within the bound.
PieceRotate ==
  /\ currentPiece.rotation < MaxTurns
  /\ PieceReturns(rotatePiece(currentPiece), "rotatePiece")

\* rotateWithWallKick where it finds a position.
PieceRotateWithWallKick ==
  /\ currentPiece.rotation < MaxTurns
  /\ rotateWithWallKick(currentPiece, grid, FIELD_SHAPE) # NULL
  /\ PieceReturns(rotateWithWallKick(currentPiece, grid, FIELD_SHAPE), "rotateWithWallKick")

\* moveDown where it is not rejected.
PieceMoveDown ==
  /\ moveDown(currentPiece, grid, FIELD_SHAPE) # NULL
  /\ PieceReturns(moveDown(currentPiece, grid, FIELD_SHAPE), "moveDown")

\* hardDrop of a piece in a valid position.
PieceHardDrop ==
  /\ isValidPiecePosition(currentPiece, grid, FIELD_SHAPE).valid
  /\ PieceReturns(hardDrop(currentPiece, grid, FIELD_SHAPE), "hardDrop")

\* moveLeft where it is not rejected.
PieceMoveLeft ==
  /\ moveLeft(currentPiece, grid, FIELD_SHAPE) # NULL
  /\ PieceReturns(moveLeft(currentPiece, grid, FIELD_SHAPE), "moveLeft")

\* moveRight where it is not rejected.
PieceMoveRight ==
  /\ moveRight(currentPiece, grid, FIELD_SHAPE) # NULL
  /\ PieceReturns(moveRight(currentPiece, grid, FIELD_SHAPE), "moveRight")

NextPieces ==
  \/ PieceRotate
  \/ PieceRotateWithWallKick
  \/ PieceMoveDown
  \/ PieceHardDrop
  \/ PieceMoveLeft
  \/ PieceMoveRight

SpecPieces == InitPieces /\ [][NextPieces]_vars

\* The offsets a shape occupies: its listed offsets and, for a type with a
\* filled centre, the origin.
OccupiedOffsets(type, shape) ==
  {axialToKey(shape[i]) : i \in DOMAIN shape}
    \cup (IF PIECE_METADATA[type].hasCenter THEN {<<0, 0>>} ELSE {})

RECURSIVE RotatedTimes(_, _)
\* The shape after n one-step rotations.
RotatedTimes(shape, n) ==
  IF n = 0 THEN shape ELSE RotatedTimes(rotatePieceShape(shape, 1), n - 1)

\* rotationStates one-step rotations of the shape of the type give the
\* offsets the shape started with.
ShapeCloses(type) ==
  OccupiedOffsets(type, RotatedTimes(PIECE_METADATA[type].shape,
                                     PIECE_METADATA[type].rotationStates))
    = OccupiedOffsets(type, PIECE_METADATA[type].shape)

\* C16: for every piece type, rotationStates one-step rotations (3 for I, S,
\* Z and O, 6 for the others) of the piece's shape reproduce exactly the
\* offsets the shape occupied.
C16_ShapeClosesAfterRotationStates == ShapeCloses(currentPiece.type)

\* C16, the case: a piece of a type with three rotation states whose
\* rotation value rotatePiece has brought to 3.
C16_ThreeStatePieceTurnedThrice ==
  /\ lastOp = "rotatePiece"
  /\ PIECE_METADATA[currentPiece.type].rotationStates = 3
  /\ currentPiece.rotation = 3

\* The cells of the piece as offsets from its position.
PieceOffsets(piece) ==
  {<<getPieceCells(piece)[i].q - piece.position.q, getPieceCells(piece)[i].r - piece.position.r>> :
     i \in DOMAIN getPieceCells(piece)}

\* The rotation of the piece as getPieceCells reduces it.
NormalizedRotation(piece) == piece.rotation % PIECE_METADATA[piece.type].rotationStates

\* The piece before the call of rotatePiece that returned `piece`.
BeforeRotate(piece) == [piece EXCEPT !.rotation = piece.rotation - 1]

\* Every cell at a unit offset of AXIAL_DIRECTIONS from the position of
\* `before` is, in `after`, at the next offset of that order.
TurnedToNext(before, after) ==
  \A i \in DOMAIN AXIAL_DIRECTIONS :
     axialToKey(AXIAL_DIRECTIONS[i]) \in PieceOffsets(before)
       => axialToKey(AXIAL_DIRECTIONS[(i % Len(AXIAL_DIRECTIONS)) + 1]) \in PieceOffsets(after)

\* C17: one rotation step is a clockwise turn by 60 degrees: a cell of the
\* piece at one of the six unit offsets moves to the next offset in the
\* order top, top-right, bottom-right, bottom, bottom-left, top-left (and
\* from top-left to top).
C17_StepTurnsClockwise ==
  (lastOp = "rotatePiece" /\ NormalizedRotation(currentPiece) # 0)
    => TurnedToNext(BeforeRotate(currentPiece), currentPiece)

\* C17, the case: rotatePiece has turned a piece with a cell at the top
\* offset by one step.
C17_TurnedFromTop ==
  /\ lastOp = "rotatePiece"
  /\ NormalizedRotation(currentPiece) # 0
  /\ axialToKey(AXIAL_DIRECTIONS[1]) \in PieceOffsets(BeforeRotate(currentPiece))

\* The cells are four, pairwise distinct.
FourDistinct(cells) == Len(cells) = 4 /\ Cardinality(Range(cells)) = 4

\* The piece with its rotation reduced modulo the rotationStates of its type.
Reduced(piece) == [piece EXCEPT !.rotation = NormalizedRotation(piece)]

\* C18: for every piece type, position and integer rotation value, negative
\* values and values from rotationStates up included, getPieceCells returns
\* four pairwise distinct cells, the cells it returns for the rotation value
\* reduced modulo the type's rotationStates.
C18_FourCellsModuloRotationStates ==
  /\ FourDistinct(getPieceCells(currentPiece))
  /\ getPieceCells(currentPiece) = getPieceCells(Reduced(currentPiece))

\* C18, the case: a negative rotation value that does not reduce to 0, on a
\* piece whose cells differ from those of rotation 0.
C18_NegativeRotation ==
  /\ currentPiece.rotation < 0
  /\ NormalizedRotation(currentPiece) # 0
  /\ getPieceCells(currentPiece) # getPieceCells([currentPiece EXCEPT !.rotation = 0])

\* C18, the case: a rotation value above rotationStates, reached by rotatePiece.
C18_RotationAboveStates ==
  /\ lastOp = "rotatePiece"
  /\ currentPiece.rotation > PIECE_METADATA[currentPiece.type].rotationStates
  /\ getPieceCells(currentPiece) # getPieceCells([currentPiece EXCEPT !.rotation = 0])

\* The shifts of the candidates in the order of the claim: in place, top,
\* top-right, bottom-right, bottom, bottom-left, top-left, one row down.
KickShifts ==
  << <<0, 0>>, <<0, -1>>, <<1, -1>>, <<1, 0>>, <<0, 1>>, <<-1, 1>>, <<-1, 0>>, <<0, 1>> >>

\* The piece turned by one step and shifted.
Kicked(piece, shift) ==
  [piece EXCEPT !.rotation = piece.rotation + 1,
                !.position = [q |-> piece.position.q + shift[1],
                              r |-> piece.position.r + shift[2]]]

\* The cells of the field that are empty in g.
FreeKeys(g) == FIELD_SHAPE \ FilledKeys(g)

\* Every cell of the piece is one of the free cells.
Fits(piece, free) == \A cell \in Range(getPieceCells(piece)) : axialToKey(cell) \in free

\* The indices of the shifts whose candidate fits.
FittingKicks(piece, free) ==
  {i \in DOMAIN KickShifts : Fits(Kicked(piece, KickShifts[i]), free)}

\* The first candidate among those that fit, or null when none does.
FirstFitting(piece, fitting) ==
  IF fitting = {} THEN NULL
  ELSE Kicked(piece, KickShifts[CHOOSE i \in fitting : \A j \in fitting : i <= j])

\* C19: rotateWithWallKick returns the first valid candidate in the order:
\* the piece rotated one step in place; the rotated piece shifted by the
\* unit offsets top, top-right, bottom-right, bottom, bottom-left, top-left;
\* the rotated piece one row down; and null exactly when none is valid.
C19_FirstValidKick ==
  rotateWithWallKick(currentPiece, grid, FIELD_SHAPE)
    = FirstFitting(currentPiece, FittingKicks(currentPiece, FreeKeys(grid)))

\* C19, the case: the piece does not fit rotated in place and fits at more
\* than one of the shifted positions.
C19_KickedWithChoice ==
  /\ 1 \notin FittingKicks(currentPiece, FreeKeys(grid))
  /\ Cardinality(FittingKicks(currentPiece, FreeKeys(grid)) \ {5, 8}) > 1

\* C19, the case: no candidate fits.
C19_NoKickFits == FittingKicks(currentPiece, FreeKeys(grid)) = {}

\* The piece k rows further down.
Lowered(piece, k) ==
  [piece EXCEPT !.position = [q |-> piece.position.q, r |-> piece.position.r + k]]

\* The k for which the piece fits after each of the first k steps down and
\* not after the next one.
DropDepth(piece, free) ==
  CHOOSE k \in 0..Cardinality(FIELD_SHAPE) :
     /\ \A j \in 1..k : Fits(Lowered(piece, j), free)
     /\ ~Fits(Lowered(piece, k + 1), free)

\* The dropped piece is the piece lowered by its drop depth; it fits, moveDown
\* rejects it and the ghost preview shows it.
DropsTo(dropped, piece, g, free) ==
  /\ dropped = Lowered(piece, DropDepth(piece, free))
  /\ Fits(dropped, free)
  /\ moveDown(dropped, g, FIELD_SHAPE) = NULL
  /\ ghostPiece(piece, g) = dropped

\* C20: for a piece in a valid position hardDrop returns the piece, with its
\* type, rotation and q, moved down by the largest k >= 0 for which k moveDown
\* steps in a row succeed; the result is a valid position, moveDown on it is
\* rejected, and it is the position of the ghost preview.
C20_HardDropLowest ==
  Fits(currentPiece, FreeKeys(grid))
    => DropsTo(hardDrop(currentPiece, grid, FIELD_SHAPE), currentPiece, grid, FreeKeys(grid))

\* C20, the case: a piece in a valid position drops by more than one row and
\* comes to rest on the filled cell of the grid.
C20_DropsOntoFilled ==
  /\ Fits(currentPiece, FreeKeys(grid))
  /\ DropDepth(currentPiece, FreeKeys(grid)) > 1
  /\ \E cell \in Range(getPieceCells(hardDrop(currentPiece, grid, FIELD_SHAPE))) :
        <<cell.q, cell.r + 1>> \in FilledKeys(grid)

\* The row of the field, counted from its top, in which a position lies:
\* generateFieldShape puts row `row` of column q at r = row - floor(q / 2).
VisualRow(position) == position.r + (position.q \div 2)

\* The moved piece is the piece with its q changed by dq, in the same row.
MovedSideways(moved, piece, dq) ==
  moved # NULL =>
    /\ moved.position.q = piece.position.q + dq
    /\ VisualRow(moved.position) = VisualRow(piece.position)
    /\ moved = [piece EXCEPT !.position = moved.position]

\* C21: a successful moveLeft (moveRight) changes the q of the position by
\* -1 (+1) and leaves its visual row r + floor(q / 2) unchanged, from every
\* column of the field.
C21_SidewaysKeepsRow ==
  /\ MovedSideways(moveLeft(currentPiece, grid, FIELD_SHAPE), currentPiece, 0 - 1)
  /\ MovedSideways(moveRight(currentPiece, grid, FIELD_SHAPE), currentPiece, 1)

\* C21, the case: a piece that moveLeft returned moves right into a column
\* in which r has to change.
C21_MovedLeftThenRightAdjusts ==
  /\ lastOp = "moveLeft"
  /\ moveRight(currentPiece, grid, FIELD_SHAPE) # NULL
  /\ moveRight(currentPiece, grid, FIELD_SHAPE).position.r # currentPiece.position.r

\* The indices of the cells that are outside the field or filled.
FailingCells(cells, free) == {i \in DOMAIN cells : axialToKey(cells[i]) \notin free}

\* The result is valid when no cell fails, and else names what is wrong with
\* the first cell that fails.
JudgesFirstFailing(result, cells, failing) ==
  IF failing = {} THEN result.valid
  ELSE /\ ~result.valid
       /\ result.reason =
            (IF axialToKey(cells[CHOOSE i \in failing : \A j \in failing : i <= j])
                  \notin FIELD_SHAPE
             THEN "out-of-bounds" ELSE "overlap")

\* C22: isValidPiecePosition reports valid exactly when every cell of the
\* piece is a cell of the field and not filled in the grid; otherwise it
\* reports the reason of the first failing cell in the order of the cells:
\* out-of-bounds when that cell is outside the field, overlap when it is
\* inside and filled.
C22_FirstFailingCellDecides ==
  JudgesFirstFailing(isValidPiecePosition(currentPiece, grid, FIELD_SHAPE),
                     getPieceCells(currentPiece),
                     FailingCells(getPieceCells(currentPiece), FreeKeys(grid)))

\* The first of the cells that fails is filled and a later one is outside
\* the field.
OverlapBeforeOutside(cells, g) ==
  \E i \in DOMAIN cells :
     /\ axialToKey(cells[i]) \in FilledKeys(g)
     /\ \A j \in 1..(i - 1) : axialToKey(cells[j]) \in FreeKeys(g)
     /\ \E j \in (i + 1)..Len(cells) : axialToKey(cells[j]) \notin FIELD_SHAPE

\* C22, the case: the first failing cell of the piece overlaps a filled cell
\* and a later cell lies outside the field.
C22_OverlapBeforeOutOfBounds == OverlapBeforeOutside(getPieceCells(currentPiece), grid)

\* A cell of the piece is filled in g.
SpawnBlocked(piece, g) ==
  \E cell \in Range(getPieceCells(piece)) : axialToKey(cell) \in FilledKeys(g)

\* The step ends the handling of a lock: the piece locked in it or a cascade
\* was being played, and nothing is pending after it.  That is where
\* trySpawnOrGameOver is called.
SpawnAttempted ==
  /\ status = "playing"
  /\ locks' > locks \/ task.pc # "none"
  /\ task'.pc = "none"

\* The step spawns the next piece: it becomes the current piece on the grid
\* of the step's end, or the game is over if one of its cells is filled there.
SpawnsOrEnds ==
  /\ (status = "playing" /\ status' = "gameOver")
       <=> (SpawnAttempted /\ SpawnBlocked(nextPiece, grid'))
  /\ SpawnAttempted => currentPiece' = nextPiece
  /\ (SpawnAttempted /\ ~SpawnBlocked(nextPiece, grid')) => status' = "playing"

\* C23: when the next piece is to be spawned, the status becomes GameOver
\* exactly when a cell of the next piece at its spawn position is filled;
\* otherwise the next piece becomes the current piece and the status stays
\* Playing.
C23_GameOverIffSpawnBlocked == [][SpawnsOrEnds]_vars

\* C23, the case: the game is over with the piece that could not spawn on
\* a filled cell.
C23_SpawnWasBlocked ==
  /\ status = "gameOver"
  /\ currentPiece # NULL
  /\ SpawnBlocked(currentPiece, grid)

(***************************************************************************)
(* The promotion of cells on its own: maybeSpawnSpecialCell applied to     *)
(* grids that hold up to the cap of each special type and up to MaxPlain   *)
(* filled cells without a tag, at the first and at the last level.         *)
(***************************************************************************)
MaxPlain == 2

\* The values Math.random() takes here, in thousandths.
PromotionRolls == {0, 500, 999}

Repeat(tag, n) == [i \in 1..n |-> tag]

\* The grid whose first cells, in the order of the field, are filled and
\* carry the tags.
TaggedGrid(tags) ==
  [key \in FIELD_SHAPE |->
     IF (CHOOSE i \in DOMAIN FIELD_ORDER : FIELD_ORDER[i] = key) <= Len(tags)
     THEN FilledCell(EngineColor, tags[CHOOSE i \in DOMAIN FIELD_ORDER : FIELD_ORDER[i] = key])
     ELSE EmptyCell]

InitSpecialCells ==
  /\ \E bombs \in 0..getMaxCount("bomb") :
        \E multipliers \in 0..getMaxCount("multiplier") :
           \E frozen \in 0..getMaxCount("frozen") :
              \E plain \in 0..MaxPlain :
                 grid = TaggedGrid(Repeat("bomb", bombs) \o Repeat("none", plain)
                                     \o Repeat("multiplier", multipliers)
                                     \o Repeat("frozen", frozen))
  /\ level \in {1, SCORING.MAX_LEVEL}
  /\ currentPiece = NULL
  /\ nextPiece = NULL
  /\ pieceHistory = <<>>
  /\ score = 0
  /\ linesCleared = 0
  /\ speed = SCORING.BASE_DROP_SPEED
  /\ status = "idle"
  /\ isLocking = FALSE
  /\ lockElapsed = NoTimer
  /\ timeSinceLastDrop = 0
  /\ task = NoTask
  /\ locks = 0
  /\ specialRolls = 0
  /\ lastOp = "init"

\* One call of maybeSpawnSpecialCell.
SpawnSpecialCell ==
  /\ \E spawnRoll \in PromotionRolls, typeRoll \in PromotionRolls, indexRoll \in PromotionRolls :
        grid' = maybeSpawnSpecialCell(grid, FIELD_SHAPE, level, spawnRoll, typeRoll, indexRoll)
  /\ lastOp' = "maybeSpawnSpecialCell"
  /\ UNCHANGED << currentPiece, nextPiece, pieceHistory, score, level, linesCleared, speed,
                  status, isLocking, lockElapsed, timeSinceLastDrop, task, locks,
                  specialRolls >>

NextSpecialCells == SpawnSpecialCell

SpecSpecialCells == InitSpecialCells /\ [][NextSpecialCells]_vars

\* The caps of the special types.
SpecialCaps == [bomb |-> 3, multiplier |-> 3, frozen |-> 1]

\* The number of filled cells of g that carry the tag.
Tagged(g, tag) == Cardinality({key \in FilledKeys(g) : g[key].special = tag})

\* The filled cells of g without a tag.
PlainKeys(g) == {key \in FilledKeys(g) : g[key].special = "none"}

\* The types that have fewer cells in g than their cap.
OpenTypes(g) == {tag \in DOMAIN SpecialCaps : Tagged(g, tag) < SpecialCaps[tag]}

\* From g to after, at most one cell has changed: a filled cell without a
\* tag that has gained the tag of a type below its cap.
PromotesAtMostOne(g, after) ==
  /\ DOMAIN after = DOMAIN g
  /\ Cardinality({key \in DOMAIN g : after[key] # g[key]}) <= 1
  /\ \A key \in DOMAIN g :
        after[key] # g[key] =>
          /\ key \in PlainKeys(g)
          /\ after[key].special \in OpenTypes(g)
          /\ after[key] = [g[key] EXCEPT !.special = after[key].special]
  /\ (PlainKeys(g) = {} \/ OpenTypes(g) = {}) => after = g

\* C24: one call of maybeSpawnSpecialCell changes at most one cell; the
\* changed cell was filled and had no tag and gains only the tag of a type
\* that had fewer cells than its cap (bomb 3, multiplier 3, frozen 1); every
\* other cell is unchanged, and the grid is returned unchanged when there is
\* no eligible cell or every type is at its cap.
C24_PromotesOneWithinCaps == [][PromotesAtMostOne(grid, grid')]_vars

\* C24, the case: after a call every type is at its cap while a filled
\* cell without a tag remains.
C24_AllTypesAtCap ==
  /\ lastOp = "maybeSpawnSpecialCell"
  /\ OpenTypes(grid) = {}
  /\ PlainKeys(grid) # {}

\* The filled cells of g with what they hold.
Filled(g) == [key \in FilledKeys(g) |-> g[key]]

\* The keys of the cells of the piece.
PieceKeys(piece) == {axialToKey(cell) : cell \in Range(getPieceCells(piece))}

\* The filled cells of g that are a cell of `keys` or next to one.
BlastKeys(g, keys) ==
  {key \in FilledKeys(g) : key \in keys \/ \E bomb \in keys : Adjacent(key, bomb)}

\* The grids the pending steps of the task will store, in order.
PendingGrids(pending) ==
  [i \in DOMAIN SelectSeq(pending, LAMBDA step : step.set) |->
     SelectSeq(pending, LAMBDA step : step.set)[i].grid]

\* The piece locks as a bomb: its cells are in the grid `locked`, tagged
\* bomb, and the grids still to be shown keep every cell while they blink,
\* then lose the piece's cells and their filled neighbours, then settle.
BombLocked(piece, before, locked, shown) ==
  /\ FilledKeys(locked) = FilledKeys(before) \cup PieceKeys(piece)
  /\ Cardinality(PieceKeys(piece)) = 4
  /\ \A key \in PieceKeys(piece) : locked[key].special = "bomb"
  /\ \A key \in FilledKeys(before) : locked[key] = before[key]
  /\ Len(shown) >= 2
  /\ FilledKeys(shown[1]) = FilledKeys(locked)
  /\ Filled(shown[2]) =
       [key \in FilledKeys(locked) \ BlastKeys(locked, PieceKeys(piece)) |-> locked[key]]
  /\ Filled(shown[Len(shown)]) = Filled(Settled(shown[2]))

\* A step of the game while the explosion of a bomb piece is played.
BombPieceStep ==
  /\ (currentPiece # NULL /\ currentPiece.special = "bomb" /\ locks' > locks)
       => /\ task'.pc = "bomb"
          /\ BombLocked(IF lastOp' = "hardDrop" THEN hardDrop(currentPiece, grid, FIELD_SHAPE)
                        ELSE currentPiece,
                        grid, grid', PendingGrids(task'.pending))
  /\ (task.pc = "bomb" /\ task' # task)
       => IF task.pending # <<>>
          THEN /\ task' = [task EXCEPT !.pending = Tail(task.pending)]
               /\ PendingGrids(<<Head(task.pending)>> \o <<Show(grid')>>)
                    = PendingGrids(<<Show(grid')>> \o <<Head(task.pending)>>)
          ELSE ~applyGravityStep(grid, FIELD_SHAPE).moved
  /\ (task.pc = "bomb" /\ task' = task) => grid' = grid

\* C25: when a piece tagged bomb locks, its four cells enter the grid tagged
\* bomb; the explosion, which removes these cells and every filled neighbour
\* of them, and the gravity settle after it are played to the end before the
\* promotion of a cell and the line detection of that lock run.
C25_BombPieceExplodesFirst == [][BombPieceStep]_vars

\* C25, the case: a bomb piece has locked next to filled cells that its
\* explosion is about to remove.
C25_BombPieceLockedByNeighbors ==
  /\ task.pc = "bomb"
  /\ Len(task.pending) > 1
  /\ \E key \in FilledKeys(grid) :
        /\ grid[key].special # "bomb"
        /\ grid[key].clearing = 0
        /\ key \notin FilledKeys(task.pending[2].grid)

\* C25, the case: cells fall after the explosion of a bomb piece.
C25_FallsAfterBombPiece == task.pc = "bomb" /\ Len(task.pending) > 2

(***************************************************************************)
(* The scoring functions on their own: calculateCascadeScore applied to    *)
(* linesCleared, level and the stage index of the task, calculateLevel to  *)
(* linesCleared and calculateSpeed to level, for every line count up to    *)
(* MaxLinesArg, level up to MaxLevelArg and stage up to MaxStageArg.       *)
(***************************************************************************)
MaxLinesArg == 210

MaxLevelArg == 22

MaxStageArg == 7

InitScoring ==
  /\ linesCleared \in 0..MaxLinesArg
  /\ level \in 1..MaxLevelArg
  /\ \E stage \in 1..MaxStageArg : task = [NoTask EXCEPT !.stageIndex = stage]
  /\ grid = initializeGrid
  /\ currentPiece = NULL
  /\ nextPiece = NULL
  /\ pieceHistory = <<>>
  /\ score = 0
  /\ speed = SCORING.BASE_DROP_SPEED
  /\ status = "idle"
  /\ isLocking = FALSE
  /\ lockElapsed = NoTimer
  /\ timeSinceLastDrop = 0
  /\ locks = 0
  /\ specialRolls = 0
  /\ lastOp = "init"

\* calculateCascadeScore for the lines, the level and the stage of the state.
ScoreStage ==
  /\ score' = calculateCascadeScore(linesCleared, level, task.stageIndex)
  /\ lastOp' = "calculateCascadeScore"
  /\ UNCHANGED << grid, currentPiece, nextPiece, pieceHistory, level, linesCleared, speed,
                  status, isLocking, lockElapsed, timeSinceLastDrop, task, locks,
                  specialRolls >>

\* calculateLevel for the lines of the state.
LevelFromLines ==
  /\ level' = calculateLevel(linesCleared)
  /\ lastOp' = "calculateLevel"
  /\ UNCHANGED << grid, currentPiece, nextPiece, pieceHistory, score, linesCleared, speed,
                  status, isLocking, lockElapsed, timeSinceLastDrop, task, locks,
                  specialRolls >>

\* calculateSpeed for the level of the state.
SpeedFromLevel ==
  /\ speed' = calculateSpeed(level)
  /\ lastOp' = "calculateSpeed"
  /\ UNCHANGED << grid, currentPiece, nextPiece, pieceHistory, score, level, linesCleared,
                  status, isLocking, lockElapsed, timeSinceLastDrop, task, locks,
                  specialRolls >>

NextScoring == ScoreStage \/ LevelFromLines \/ SpeedFromLevel

SpecScoring == InitScoring /\ [][NextScoring]_vars

\* The combo multiplier of 1, 2, 3 and 4 lines.
Combo == <<1, 3, 5, 8>>

\* Twice the cascade multiplier of the stages 1 to 5.
TwiceCascade == <<2, 3, 4, 5, 6>>

\* floor(100 * n * combo(min(n, 4)) * lvl * m(min(s, 5))), and 0 for no line.
CascadePoints(n, lvl, s) ==
  IF n = 0 THEN 0
  ELSE (100 * n * Combo[IF n < 4 THEN n ELSE 4] * lvl * TwiceCascade[IF s < 5 THEN s ELSE 5])
         \div 2

\* C26: for n >= 1 lines, a level >= 1 and a stage s >= 1,
\* calculateCascadeScore(n, level, s) is
\* floor(100 * n * combo(min(n, 4)) * level * m(min(s, 5))) with combo 1, 3,
\* 5, 8 and m 1, 1.5, 2, 2.5, 3, so every stage from the fifth on has the
\* multiplier 3; it is 0 for n = 0.
C26_CascadeScoreFormula ==
  calculateCascadeScore(linesCleared, level, task.stageIndex)
    = CascadePoints(linesCleared, level, task.stageIndex)

\* C26, the case: six lines at level 3 in the seventh stage have been scored.
C26_ScoredPastFifthStage ==
  /\ lastOp = "calculateCascadeScore"
  /\ linesCleared = 6 /\ level = 3 /\ task.stageIndex = 7
  /\ score = 43200

\* C26, the case of section 8: two lines at level 3 in stage 2 give 2700.
C26_ScoredExample ==
  /\ lastOp = "calculateCascadeScore"
  /\ linesCleared = 2 /\ level = 3 /\ task.stageIndex = 2
  /\ score = 2700

\* C27: calculateLevel(n) does not decrease as n grows, is 1 for n = 0 and
\* never exceeds 20; calculateSpeed(level) does not increase as the level
\* grows and is never below 100 ms.
C27_LevelAndSpeedMonotone ==
  /\ \A n \in 0..linesCleared : calculateLevel(n) <= calculateLevel(linesCleared)
  /\ linesCleared = 0 => calculateLevel(linesCleared) = 1
  /\ calculateLevel(linesCleared) <= 20
  /\ \A lower \in 1..level : calculateSpeed(lower) >= calculateSpeed(level)
  /\ calculateSpeed(level) >= 100

\* C27, the case: more than 200 lines have given the level 20 and the level
\* the speed 100.
C27_LevelCappedSpeedFloored ==
  /\ lastOp = "calculateSpeed"
  /\ linesCleared > 200
  /\ level = 20
  /\ speed = 100

\* The piece one column to the side (dq is -1 or 1) in its visual row.
SidewaysOf(piece, dq) ==
  [piece EXCEPT !.position =
     [q |-> piece.position.q + dq,
      r |-> VisualRow(piece.position) - ((piece.position.q + dq) \div 2)]]

\* The piece at its bottom-left (dq = -1) or bottom-right (dq = 1) neighbour.
DiagonalOf(piece, dq) ==
  [piece EXCEPT !.position =
     [q |-> piece.position.q + dq,
      r |-> piece.position.r + (IF dq < 0 THEN 1 ELSE 0)]]

\* The piece is at the target if the target fits, and where it was if not.
MovedTo(after, piece, target, free) == after = (IF Fits(target, free) THEN target ELSE piece)

\* A left or right command on a piece: diagonally down in Locking, sideways
\* when the piece is Free.
SidewaysCommand(op, dq) ==
  (lastOp' = op /\ currentPiece # NULL)
    => MovedTo(currentPiece', currentPiece,
               IF isLocking THEN DiagonalOf(currentPiece, dq) ELSE SidewaysOf(currentPiece, dq),
               FreeKeys(grid))

\* C28: a left or right command uses the diagonal-down variant (down-left,
\* down-right) exactly when the piece is in Locking at the time of the
\* command, and the plain moveLeft or moveRight exactly when it is Free.
C28_DiagonalOnlyWhileLocking ==
  [][SidewaysCommand("moveLeft", 0 - 1) /\ SidewaysCommand("moveRight", 1)]_vars

\* C28, the case: a piece in Locking fits both one step down-left and one
\* step to the left, at two different positions.
C28_LockingPieceCanTuck ==
  /\ status = "playing"
  /\ currentPiece # NULL
  /\ isLocking
  /\ Fits(DiagonalOf(currentPiece, 0 - 1), FreeKeys(grid))
  /\ Fits(SidewaysOf(currentPiece, 0 - 1), FreeKeys(grid))
  /\ DiagonalOf(currentPiece, 0 - 1) # SidewaysOf(currentPiece, 0 - 1)

RECURSIVE StagesLines(_, _)
\* The number of lines of the first n stages.
StagesLines(stages, n) ==
  IF n = 0 THEN 0 ELSE StagesLines(stages, n - 1) + Len(stages[n].lines)

RECURSIVE StagesPoints(_, _, _)
\* The points of the first n stages, each scored at the level lvl.
StagesPoints(stages, lvl, n) ==
  IF n = 0 THEN 0
  ELSE StagesPoints(stages, lvl, n - 1) + CascadePoints(Len(stages[n].lines), lvl, n)

\* A step of the game seen from the cascade: nothing is counted when it
\* begins and while it is played, everything when it ends.
CascadeStep ==
  /\ (task.pc # "stages" /\ task'.pc = "stages")
       => /\ score' = score + (IF locks' > locks THEN calculateLockScore(level) ELSE 0)
          /\ linesCleared' = linesCleared /\ level' = level
  /\ (task.pc = "stages" /\ task'.pc = "stages")
       => score' = score /\ linesCleared' = linesCleared /\ level' = level
  /\ (task.pc = "stages" /\ task'.pc # "stages")
       => /\ score' = score + StagesPoints(task.stages, level, Len(task.stages))
          /\ linesCleared' = linesCleared + StagesLines(task.stages, Len(task.stages))

\* C29: the points and the lines of a cascade are added to score and
\* linesCleared once, after the last stage has been played; while the stages
\* are played score, linesCleared and level do not change, so every stage is
\* scored at the level in effect when the piece locked.
C29_CascadeCountedOnceAtEnd == [][CascadeStep]_vars

\* C29, the case: the second stage of a cascade is being played.
C29_SecondStagePlaying == task.pc = "stages" /\ task.stageIndex > 1

\* C29, the case: a cascade has ended and its lines have raised the level.
C29_CascadeRaisedLevel == lastOp = "resume" /\ task.pc = "none" /\ level > 1

(***************************************************************************)
(* The game in progress of InitMidGame, with one roll of the model still   *)
(* free to come out special: the cascade of the piece that locks next has  *)
(* two stages, and the promotion between them can succeed.                 *)
(***************************************************************************)
InitMidGameRoll ==
  /\ grid = MidGameGrid
  /\ currentPiece = createPiece("P_PIECE",
                                [q |-> SPAWN_POSITION.q,
                                 r |-> SPAWN_POSITION.r - getMinROffset("P_PIECE")],
                                0, "none")
  /\ \E type \in {"U_PIECE", "S_PIECE"} :
        /\ nextPiece = createPiece(type,
                                   [q |-> SPAWN_POSITION.q,
                                    r |-> SPAWN_POSITION.r - getMinROffset(type)],
                                   0, "none")
        /\ pieceHistory = <<type, "P_PIECE", "O_PIECE">>
  /\ score = 780
  /\ level = 1
  /\ linesCleared = 7
  /\ speed = SCORING.BASE_DROP_SPEED
  /\ status = "playing"
  /\ isLocking = FALSE
  /\ lockElapsed = NoTimer
  /\ timeSinceLastDrop = 0
  /\ task = NoTask
  /\ locks = MaxLocks - 1
  /\ specialRolls = MaxSpecialRolls - 1
  /\ lastOp = "hardDrop"

SpecMidGameRoll == InitMidGameRoll /\ [][Next]_vars

\* The cells maybeSpawnSpecialCell can promote in the grid g at the level lvl
\* when its first roll is below the chance.
PromotableKeys(g, lvl) ==
  {key \in PlainKeys(g) :
     \E typeRoll \in Rolls, indexRoll \in Rolls :
        maybeSpawnSpecialCell(g, FIELD_SHAPE, lvl, 0, typeRoll, indexRoll)[key].special
          # "none"}

\* Where gravity puts the filled cell at key of the grid g: in its column, as
\* many cells from the bottom as there are filled cells at or below it.
Landed(key, g) ==
  CHOOSE to \in ColumnKeys(key[1]) :
     Cardinality({below \in ColumnKeys(key[1]) : below[2] >= to[2]}) =
       Cardinality({below \in FilledKeys(g) \cap ColumnKeys(key[1]) : below[2] >= key[2]})

Gone == <<>>

RECURSIVE CarriedTo(_, _, _)
\* Where the stages from the j-th on leave the cell that is at key when the
\* j-th begins, or Gone if one of them clears or destroys it.
CarriedTo(key, stages, j) ==
  IF j > Len(stages) THEN key
  ELSE IF key \in KeysOfLines(stages[j].lines) \/ ~IsFilled(stages[j].gridAfterClear, key)
  THEN Gone
  ELSE CarriedTo(Landed(key, stages[j].gridAfterClear), stages, j + 1)

\* A stage that is not the last has settled, and the roll of the promotion
\* that follows it comes out below the chance.
PromotedBetweenStages ==
  /\ task.pc = "stages" /\ task.pending = <<>>
  /\ task.stageIndex < Len(task.stages)
  /\ specialRolls' > specialRolls

\* The cell at key, if no stage to come removes it, is tagged in the grid
\* the last stage ends with.
KeepsTag(key, stages, j) ==
  \/ CarriedTo(key, stages, j) = Gone
  \/ stages[Len(stages)].gridAfterGravity[CarriedTo(key, stages, j)].special # "none"

\* The grid stored in the step after which the piece spawns is the grid the
\* last stage ends with, but for the tag of the promotion after that stage.
EndsWithLastStage ==
  (task.pc = "stages" /\ task'.pc = "none") =>
     \A key \in FIELD_SHAPE :
        /\ IsFilled(grid', key) = IsFilled(task.stages[Len(task.stages)].gridAfterGravity, key)
        /\ (/\ IsFilled(grid', key)
            /\ grid'[key].special
                 # task.stages[Len(task.stages)].gridAfterGravity[key].special)
             => key \in PromotableKeys(grid, task.level)

\* The cascade ends in the grid of its last stage (see EndsWithLastStage).
CascadeEndsWithLastStage == [][EndsWithLastStage]_vars

\* C30: a cell promoted after the gravity settle of a stage of a cascade
\* carries its tag in the grid in which the next piece spawns (the grid the
\* last stage ends with), unless a later stage clears or destroys the cell.
C30_PromotedCellKeepsTag ==
  [][PromotedBetweenStages =>
       \A key \in PromotableKeys(grid, task.level) :
          KeepsTag(key, task'.stages, task'.stageIndex)]_vars

\* C30, the case: the blink grid of a later stage is shown after a promotion
\* roll has been spent.
C30_LaterStageAfterPromotion ==
  /\ task.pc = "stages" /\ task.stageIndex > 1
  /\ specialRolls > 0
  /\ \A key \in FilledKeys(grid) : grid[key].special = "none"

\* C31: at every moment of a game the grid holds at most 3 bomb cells, at
\* most 3 multiplier cells and at most 1 frozen cell, whether the cells were
\* promoted or came from locked special pieces.
C31_SpecialCellsWithinCaps ==
  status # "idle" =>
     /\ Tagged(grid, "bomb") <= SPECIAL_CELL_SPAWN.BOMB_MAX_COUNT
     /\ Tagged(grid, "multiplier") <= SPECIAL_CELL_SPAWN.MULTIPLIER_MAX_COUNT
     /\ Tagged(grid, "frozen") <= SPECIAL_CELL_SPAWN.FROZEN_MAX_COUNT

\* C31, the case: a multiplier piece has locked, the animations of the lock
\* are over and the next piece is falling.
C31_MultiplierPieceLocked ==
  /\ status = "playing" /\ task.pc = "none" /\ currentPiece # NULL
  /\ Tagged(grid, "multiplier") = 4

\* C31, the case: a promotion has tagged a cell of the grid.
C31_PromotedCellInGrid ==
  /\ status = "playing" /\ task.pc = "none"
  /\ Tagged(grid, "bomb") + Tagged(grid, "multiplier") + Tagged(grid, "frozen") = 1

(***************************************************************************)
(* The game loop keeps running.  requestAnimationFrame calls gameLoop      *)
(* again and again while the status is Playing, so time passes, a due drop *)
(* tick and an expired lock delay are acted on, and the delay a suspended  *)
(* task awaits ends; nothing makes the player press a key.  The player may *)
(* rotate a piece any number of times: piece.rotation is kept modulo 6,    *)
(* which leaves the cells of the piece as they are (rotationStates is 1, 3 *)
(* or 6, and rotatePieceShape reduces the steps modulo 6).                 *)
(***************************************************************************)
TurnsKept(st) ==
  IF st.currentPiece = NULL THEN st
  ELSE [st EXCEPT !.currentPiece.rotation = st.currentPiece.rotation % 6]

OnRotateAgain ==
  /\ KeysEnabled
  /\ Commit(TurnsKept(onRotate(Store)), "rotate")

NextLoop ==
  \/ StartGame
  \/ Advance
  \/ FrameLockExpired
  \/ FrameDrop
  \/ FrameIdle
  \/ OnMoveLeft
  \/ OnMoveRight
  \/ OnMoveDown
  \/ OnRotateAgain
  \/ OnHardDrop
  \/ ResumeTask

\* The frame of the game loop that calls onLock() can be taken.
LockFrameDue ==
  /\ status = "playing"
  /\ isLocking /\ lockElapsed # NoTimer /\ lockElapsed >= LOCK_DELAY_MS
  /\ locks < MaxLocks

\* The frame of the game loop that calls onDrop() can be taken.
DropFrameDue == status = "playing" /\ ~isLocking /\ timeSinceLastDrop >= speed

\* Weak fairness of the frames and of the suspended task, with the
\* conditions under which they can be taken written out.
LoopRuns ==
  /\ WF_vars(Advance)
  /\ ([]<>(~LockFrameDue) \/ []<><<FrameLockExpired>>_vars)
  /\ ([]<>(~DropFrameDue) \/ []<><<FrameDrop>>_vars)
  /\ ([]<>(task.pc = "none") \/ []<><<ResumeTask>>_vars)

SpecLoop == InitMidGame /\ [][NextLoop]_vars /\ LoopRuns

\* The piece is in lock delay and the model lets one more piece lock.
InLockDelay(n) ==
  /\ status = "playing" /\ currentPiece # NULL /\ isLocking
  /\ locks = n /\ n < MaxLocks

C32_LockDelayRunOut == InLockDelay(MaxLocks - 1) /\ lockElapsed = LOCK_DELAY_MS

\* C33: whenever the lock-delay state is Locking there is a current piece
\* and moveDown rejects it in the current grid.
C33_LockingPieceRests ==
  isLocking => /\ currentPiece # NULL
               /\ status = "playing"
               /\ moveDown(currentPiece, grid, FIELD_SHAPE) = NULL

\* C33, the consequence: the frame in which the lock delay has expired locks
\* the piece where it is; handleLock never moves it down instead.
C33_ExpiryLocks ==
  [][lastOp' = "lockExpired" =>
       /\ locks' = locks + 1
       /\ \A i \in 1..4 : IsFilled(grid', axialToKey(getPieceCells(currentPiece)[i]))]_vars

\* C33, the case: a move of the player has put a piece into Locking, or has
\* restarted the lock delay.
C33_MovedIntoLocking ==
  isLocking /\ lastOp \in {"moveLeft", "moveRight", "moveDown", "rotate"} /\ lockElapsed = 0

\* C33, the case: the lock delay has expired and the piece has been locked.
C33_ExpiredAndLocked == lastOp = "lockExpired" /\ locks > 0

\* The cell without the mark of the clearing animation.
Unmarked(cell) == [cell EXCEPT !.clearing = 0]

\* The grid `after` is the grid `before` with the four cells of the piece
\* (its keys are `keys`) filled in, which were empty cells of the field
\* (`filled` are the filled cells of `before`); the cells of the piece carry
\* its colour and its tag, every other cell is as it was.  The steps of
\* handleLock that follow lockPiece before its first await may have tagged
\* one plain cell and marked cells for the clearing animation.
LockedInto(piece, keys, filled, before, after) ==
  /\ Cardinality(keys) = 4
  /\ keys \subseteq FIELD_SHAPE \ filled
  /\ FilledKeys(after) = filled \cup keys
  /\ Cardinality({key \in filled \cup keys :
                    Unmarked(after[key]) #
                      (IF key \in keys
                       THEN FilledCell(PIECE_METADATA[piece.type].color, piece.special)
                       ELSE Unmarked(before[key]))}) <= 1
  /\ \A key \in filled \cup keys :
        [Unmarked(after[key]) EXCEPT !.special = "none"] =
          (IF key \in keys
           THEN FilledCell(PIECE_METADATA[piece.type].color, "none")
           ELSE [Unmarked(before[key]) EXCEPT !.special = "none"])

\* The piece at rest is locked into the grid.
LocksAtRest(piece, before, after) ==
  /\ moveDown(piece, before, FIELD_SHAPE) = NULL
  /\ LockedInto(piece, PieceKeys(piece), FilledKeys(before), before, after)

\* C34: a piece is locked only at a position from which moveDown is
\* rejected, by the expiry of the lock delay and by a hard drop alike, and
\* the lock fills exactly the four cells of the piece, which were empty, and
\* changes no other cell.
C34_LocksOnlyAtRest ==
  [][locks' > locks =>
       /\ currentPiece # NULL
       /\ lastOp' \in {"lockExpired", "hardDrop"}
       /\ LocksAtRest(IF lastOp' = "hardDrop"
                      THEN hardDrop(currentPiece, grid, FIELD_SHAPE) ELSE currentPiece,
                      grid, grid')]_vars

\* C34, the case: a hard drop has locked a piece that was in the air, on top
\* of a piece locked before.
C34_DroppedOntoStack ==
  /\ lastOp = "hardDrop" /\ locks = MaxLocks
  /\ Cardinality(FilledKeys(grid)) >= 8

\* C34, the case: the lock delay has expired and the piece has been locked
\* without completing a line.
C34_LockedByExpiryNoLine ==
  lastOp = "lockExpired" /\ locks > 0 /\ task.pc = "none" /\ status = "playing"

\* The field and the spawn position of the program: generateFieldShape
\* with 11 columns and 20 rows, and {q: 5, r: -2}.
ProgramFieldShape == {<<col, row - (col \div 2)>> : col \in 0..10, row \in 0..19}

ProgramSpawnPosition == [q |-> 5, r |-> 0 - 2]

\* The piece spawnPiece creates for a type at a position.
SpawnedAt(type, position) ==
  createPiece(type, [q |-> position.q, r |-> position.r - getMinROffset(type)], 0, "none")

\* The piece occupies four cells of the field `shape`.
FourCellsOf(piece, shape) ==
  Cardinality(PieceKeys(piece)) = 4 /\ PieceKeys(piece) \subseteq shape

\* Every piece type at its spawn position lies inside the field, on the
\* field of the model and on the program's.
SpawnsInsideField ==
  \A i \in DOMAIN PieceTypes :
     /\ FourCellsOf(SpawnedAt(PieceTypes[i], SPAWN_POSITION), FIELD_SHAPE)
     /\ FourCellsOf(SpawnedAt(PieceTypes[i], ProgramSpawnPosition), ProgramFieldShape)

\* C35: while the status is Playing the current piece, if there is one,
\* occupies four cells of the field none of which is filled in the grid; in
\* particular every piece type at its spawn position lies inside the field.
C35_CurrentPieceOnFreeCells ==
  /\ (status = "playing" /\ currentPiece # NULL)
       => /\ FourCellsOf(currentPiece, FIELD_SHAPE)
          /\ PieceKeys(currentPiece) \cap FilledKeys(grid) = {}
  /\ SpawnsInsideField

\* C35, the case: a piece has spawned above locked cells, the status is
\* Playing and nothing has moved it yet.
C35_SpawnedAboveStack ==
  /\ status = "playing" /\ currentPiece # NULL /\ locks > 0
  /\ currentPiece = SpawnedAt(currentPiece.type, SPAWN_POSITION)
  /\ lastOp \in {"hardDrop", "lockExpired", "resume"}

(***************************************************************************)
(* The effect of one applyGravityStep.                                     *)
(***************************************************************************)
\* The field cells below a key in its column.
BelowInColumn(key) == {below \in ColumnKeys(key[1]) : below[2] > key[2]}

\* The filled cells that have an empty cell of the field somewhere below them
\* in their column: the cells that are not grounded.
FloatingIn(filled) == {key \in filled : ~(BelowInColumn(key) \subseteq filled)}

\* The result `step` of one gravity step on the grid g whose filled cells are
\* `filled`, `floating` of them floating.
GravityStepEffect(g, filled, floating, step) ==
  /\ \A key \in filled \ floating :
        IsFilled(step.grid, key) /\ step.grid[key] = g[key]
  /\ \A key \in floating :
        /\ <<key[1], key[2] + 1>> \in FIELD_SHAPE
        /\ IsFilled(step.grid, <<key[1], key[2] + 1>>)
        /\ step.grid[<<key[1], key[2] + 1>>] = g[key]
  /\ Cardinality(FilledKeys(step.grid)) = Cardinality(filled)
  /\ step.moved <=> floating # {}

RECURSIVE RowsToFall(_)
\* The number of field cells below the cells of a set of keys, summed: how
\* far the cells could fall at most.
RowsToFall(keys) ==
  IF keys = {} THEN 0
  ELSE LET key == CHOOSE k \in keys : TRUE
       IN Cardinality(BelowInColumn(key)) + RowsToFall(keys \ {key})

\* The frozen cells of the grid g that no line clear has reached yet.
FrozenUncleared(g) ==
  {key \in FilledKeys(g) : g[key].special = "frozen" /\ ~g[key].frozenCleared}

\* What a cascade can still take from the grid g: a line clear removes a
\* cell or turns a frozen cell into a normal one.
ClearsLeft(g) == Cardinality(FilledKeys(g)) + Cardinality(FrozenUncleared(g))

\* A pass of the loop of getGravityFrames on g, `step` being the result of
\* its applyGravityStep, brings the cells nearer to the floor.
FramePassDescends(g, step) ==
  step.moved => RowsToFall(FilledKeys(step.grid)) < RowsToFall(FilledKeys(g))

\* A pass of the loop of detectLinesForAnimation on g, `lines` being the
\* lines it detects, leaves less to clear.
StagePassShrinks(g, lines) ==
  Len(lines) > 0 =>
    ClearsLeft(Settled(clearLines(g, lines, FIELD_SHAPE).gridAfterBombs)) < ClearsLeft(g)

\* C37: on every grid of the field, with frozen and bomb cells among its
\* cells, every pass of the loop of getGravityFrames lowers the rows the
\* cells can still fall and every pass of the loop of detectLinesForAnimation
\* lowers the number of clears the grid can still take, so both loops end:
\* the frames are no more than the rows to fall and the stages no more than
\* the clears left.
C37_SettleAndCascadeTerminate ==
  /\ FramePassDescends(grid, applyGravityStep(grid, FIELD_SHAPE))
  /\ StagePassShrinks(grid, detectLines(grid, FIELD_SHAPE))
  /\ Len(getGravityFrames(grid, FIELD_SHAPE)) <= RowsToFall(FilledKeys(grid))
  /\ Len(detectLinesForAnimation(grid, FIELD_SHAPE)) <= ClearsLeft(grid)

\* A grid returned by a gravity step whose cascade has a second stage, the
\* first stage having turned a frozen cell into a normal one and let cells
\* fall for two frames.
C37_FrozenCellCascade ==
  /\ lastOp = "applyGravityStep"
  /\ FrozenUncleared(grid) # {}
  /\ Len(detectLinesForAnimation(grid, FIELD_SHAPE)) >= 2
  /\ Len(detectLinesForAnimation(grid, FIELD_SHAPE)[1].gravityFrames) >= 2
  /\ FrozenUncleared(detectLinesForAnimation(grid, FIELD_SHAPE)[1].gridAfterGravity) = {}

(***************************************************************************)
(* GameOver is terminal.                                                   *)
(***************************************************************************)
\* A step taken when the game is over that is not the start of a new game
\* keeps the grid, the score, the cleared lines and the current piece.
GameOverKeeps ==
  (status = "gameOver" /\ lastOp' # "startGame") =>
     UNCHANGED << grid, score, linesCleared, currentPiece >>

\* C38: once the status is GameOver, no drop tick, lock-timer expiry or key
\* command changes the grid, the score, linesCleared or the current piece
\* until startGame is called.
C38_GameOverIsTerminal == [][GameOverKeeps]_vars

\* The game is over after a lock, the lock delay is off, nothing is pending
\* and the piece that could not spawn is shown.
C38_GameOverReached ==
  /\ status = "gameOver"
  /\ locks > 0
  /\ currentPiece # NULL
  /\ ~isLocking
  /\ task.pc = "none"

\* A new game has replaced the game that was over.
C38_PlayingAgain ==
  /\ status = "playing"
  /\ lastOp = "startGame"
  /\ locks > 0

(***************************************************************************)
(* The two pieces startGame creates.                                       *)
(***************************************************************************)
\* C39: the current piece and the next piece that startGame creates are
\* never special, neither bomb nor multiplier.
C39_FirstTwoPiecesPlain ==
  lastOp = "startGame" =>
     /\ currentPiece.special = "none"
     /\ nextPiece.special = "none"

\* A game has just started with a bomb as its first piece.
C39_GameStartsWithBombPiece ==
  /\ lastOp = "startGame"
  /\ status = "playing"
  /\ locks = 0
  /\ currentPiece.special = "bomb"
  /\ nextPiece.special = "none"

(***************************************************************************)
(* The types of consecutively generated pieces.                            *)
(***************************************************************************)
\* The step spawns the next piece and generates a new next piece.
Spawned == SpawnAttempted /\ status' = "playing"

\* The pieces a step generates differ in type from the pieces generated
\* just before them, and the piece history records the latest three types.
TypesKeptApart ==
  /\ lastOp' = "startGame" =>
        /\ nextPiece'.type # currentPiece'.type
        /\ pieceHistory' = <<nextPiece'.type, currentPiece'.type>>
  /\ Spawned =>
        /\ nextPiece'.type \notin Range(pieceHistory)
        /\ pieceHistory'[1] = nextPiece'.type
        /\ \A i \in 2..Len(pieceHistory') : pieceHistory'[i] = pieceHistory[i - 1]
        /\ Len(pieceHistory') = Min(3, Len(pieceHistory) + 1)
        /\ Len(pieceHistory) = 3 =>
              Cardinality(Range(pieceHistory) \cup {nextPiece'.type}) = 4
  /\ Len(pieceHistory') <= 3

\* C40: the type of each newly generated next piece differs from the types
\* of the up to three most recently generated pieces, so four consecutively
\* spawned pieces of a game have four different types, and pieceHistory
\* never holds more than three entries.
C40_RecentTypesExcluded == [][TypesKeptApart]_vars

\* The fourth piece of a game has been generated: the history holds the
\* types of the fourth, third and second piece.
C40_FourthPieceGenerated ==
  /\ status = "playing"
  /\ locks = 2
  /\ task.pc = "none"
  /\ currentPiece # NULL
  /\ Len(pieceHistory) = 3
  /\ pieceHistory[1] = nextPiece.type
  /\ pieceHistory[2] = currentPiece.type

=============================================================================
